---- MODULE Spec2Model ----
(***************************************************************************)
(* Model of the live transcription pipeline of model/live_transcriber.py:  *)
(* the capture callback and its bounded queue, the segmentation/dispatch   *)
(* loop with its voice-activity state machine, the worker pool, the        *)
(* in-order printer and run()'s shutdown.                                  *)
(*                                                                         *)
(* Units: a sample is an amplitude in hundredths (5 = 0.05), and           *)
(* vad_rms_threshold is in the same unit (1 = 0.010).                      *)
(***************************************************************************)
EXTENDS Integers, Sequences, FiniteSets, TLC

VARIABLES
    audio_queue,     \* self.audio_queue: FIFO of blocks, oldest first
    stop_event,      \* self.stop_event
    _seq,            \* self._seq
    _next_to_print,  \* self._next_to_print
    _results,        \* self._results: seq -> (text, ms, dur)
    _lock,           \* self._lock: "free" or the thread holding it
    cb_pc,           \* position of audio_callback
    indata,          \* the block audio_callback is pushing
    pl_pc,           \* position of process_loop
    buf,             \* process_loop local: samples not yet cut into a frame
    preroll,         \* process_loop local: deque(maxlen=preroll_frames)
    in_speech,       \* process_loop local
    speech_frames,   \* process_loop local: frames of the open utterance
    speech_run,      \* process_loop local
    silence_run,     \* process_loop local
    futures,         \* process_loop local: the futures not yet harvested
    new_futures,     \* process_loop local (harvest)
    fi,              \* process_loop local: index of f in "for f in futures"
    tasks,           \* the executor's work items: seq -> state, argument, outcome
    pr_pc,           \* position of printer_loop
    main_pc,         \* position of run()
    loud_produced,   \* history: number of loud blocks produced
    utterances,      \* history: the utterances the segmenter completed, in order
    emitted,         \* history: the sequence numbers printer_loop popped, in order
    sink,            \* history: the lines printer_loop printed, in order
    attrs,           \* the instance attributes the frame loop runs with
    frames_in,       \* history: the frames the frame loop has processed, in order
    opened_at,       \* history: the frames (by position) at which an utterance opened
    closed_at,       \* history: the frames (by position) at which one was emitted
    cfg_yaml,        \* cfg of __init__: what it read from config.yaml
    last_pull,       \* history: how the last audio_queue.get ended
    produced,        \* history: the blocks the capture stream delivered, in order
    pulled,          \* history: the blocks audio_queue.get returned, in order
    _TTS_CACHE_MAX,      \* backend/main.py: module constant, read from the environment
    _TTS_CACHE_TTL_SEC,  \* backend/main.py: module constant, read from the environment
    _TTS_CACHE,          \* backend/main.py: the OrderedDict, oldest first
    _TTS_CACHE_LOCK,     \* backend/main.py: the thread that holds it, or Unlocked
    time_now,            \* time.time(), in seconds
    tts_pc,              \* position of each request thread in _tts_cache_get/_set
    tts_key,             \* each request thread's argument key
    tts_ret,             \* history: what each thread's last _tts_cache_get returned
    tts_used             \* history: the keys set or successfully read, least recent first

vars == <<audio_queue, stop_event, _seq, _next_to_print, _results, _lock,
          cb_pc, indata, pl_pc, buf, preroll, in_speech, speech_frames,
          speech_run, silence_run, futures, new_futures, fi, tasks, pr_pc,
          main_pc, loud_produced, utterances,
          emitted, sink, attrs, frames_in, opened_at, closed_at, cfg_yaml,
          last_pull, produced, pulled, _TTS_CACHE_MAX, _TTS_CACHE_TTL_SEC,
          _TTS_CACHE, _TTS_CACHE_LOCK, time_now, tts_pc, tts_key, tts_ret,
          tts_used>>

segmenter == <<buf, preroll, in_speech, speech_frames, speech_run, silence_run>>
history == <<loud_produced>>
printed == <<emitted, sink>>
seg_history == <<attrs, frames_in, opened_at, closed_at, cfg_yaml>>
queue_history == <<produced, pulled>>
tts_state == <<_TTS_CACHE_MAX, _TTS_CACHE_TTL_SEC, _TTS_CACHE, _TTS_CACHE_LOCK,
               time_now, tts_pc, tts_key, tts_ret, tts_used>>

----------------------------------------------------------------------------
(* Configuration. config is what __init__ reads from config.yaml (the     *)
(* source's defaults apply only to keys the file leaves out), chosen       *)
(* small: a frame is 2 samples, a block is one frame, one speech frame     *)
(* opens an utterance, one silent frame closes it, the preroll holds one   *)
(* frame and an utterance is cut at 4 frames.                              *)

max_workers == 2
max_queue_chunks == 2

config ==
    [sample_rate |-> 4, blocksize |-> 2, frame_ms |-> 500,
     vad_rms_threshold |-> 1, min_speech_ms |-> 500, hangover_ms |-> 500,
     preroll_ms |-> 500, max_utterance_sec |-> 2]

Max(a, b) == IF a >= b THEN a ELSE b
Abs(x) == IF x >= 0 THEN x ELSE 0 - x

(* int(a / b), b # 0: the quotient cut towards zero. *)
int_div(a, b) ==
    IF (a >= 0) = (b > 0) THEN Abs(a) \div Abs(b) ELSE 0 - (Abs(a) \div Abs(b))

(* __init__ raises: the only configuration value it cannot compute with is *)
(* frame_ms = 0 (ZeroDivisionError at line 39); it tests no value.         *)
init_raises(cfg) == cfg.frame_ms = 0

(* The attributes __init__ sets from a configuration it does not raise on. *)
LiveTranscriber(cfg) ==
    [sample_rate |-> cfg.sample_rate,
     blocksize |-> cfg.blocksize,
     frame_ms |-> cfg.frame_ms,
     vad_rms_threshold |-> cfg.vad_rms_threshold,
     frame_samples |-> int_div(cfg.sample_rate * cfg.frame_ms, 1000),
     min_speech_frames |-> Max(1, int_div(cfg.min_speech_ms, cfg.frame_ms)),
     hangover_frames |-> Max(1, int_div(cfg.hangover_ms, cfg.frame_ms)),
     preroll_frames |-> Max(1, int_div(cfg.preroll_ms, cfg.frame_ms)),
     max_utt_frames |-> int_div(cfg.max_utterance_sec * 1000, cfg.frame_ms)]

self == LiveTranscriber(config)

(* Bounds of the model. *)
MaxLoud == 2
Loud == 5

SilentBlock == [i \in 1..self.blocksize |-> 0]
LoudBlock == [i \in 1..self.blocksize |-> Loud]

(* What a whisper.transcribe call may return, and the milliseconds it took. *)
Outcomes == {[raw |-> <<" ">>, ms |-> 1], [raw |-> <<" ", "a">>, ms |-> 2]}

----------------------------------------------------------------------------
(* Pure helpers. *)

RECURSIVE SumSq(_)
SumSq(x) == IF x = <<>> THEN 0 ELSE Head(x) * Head(x) + SumSq(Tail(x))

(* rms(frame) >= t. rms is sqrt(mean(x*x) + 1e-12); with amplitudes and t  *)
(* on the hundredths grid and t > 0 the 1e-12 cannot change the comparison,*)
(* which is made on the squares: sum(x*x) >= n * t * t.                    *)
rms_ge(x, t) == SumSq(x) >= Len(x) * t * t

RECURSIVE lstrip(_)
lstrip(s) == IF s # <<>> /\ Head(s) = " " THEN lstrip(Tail(s)) ELSE s

RECURSIVE rstrip(_)
rstrip(s) ==
    IF s # <<>> /\ s[Len(s)] = " " THEN rstrip(SubSeq(s, 1, Len(s) - 1)) ELSE s

strip(s) == rstrip(lstrip(s))

(* np.concatenate(frames): the frames' samples, in order (the list is      *)
(* halved at each step so that long utterances evaluate in shallow depth). *)
RECURSIVE concatenate(_)
concatenate(fs) ==
    IF fs = <<>> THEN <<>>
    ELSE IF Len(fs) = 1 THEN fs[1]
    ELSE LET h == Len(fs) \div 2
         IN  concatenate(SubSeq(fs, 1, h)) \o concatenate(SubSeq(fs, h + 1, Len(fs)))

(* Mutant of deque_append: the deque has no maxlen. *)
deque_append_unbounded(d, x, maxlen) == Append(d, x)

deque_append(d, x, maxlen) ==
    IF Len(d) >= maxlen THEN Append(Tail(d), x) ELSE Append(d, x)

EmptyMap == [k \in {} |-> <<>>]
MapPut(m, k, v) == [j \in DOMAIN m \cup {k} |-> IF j = k THEN v ELSE m[j]]
MapPop(m, k) == [j \in DOMAIN m \ {k} |-> m[j]]

----------------------------------------------------------------------------
(* The voice-activity state machine of process_loop, one frame at a time.  *)
(* s packs the loop's locals, self._seq and the utterances submitted; c is *)
(* the instance's attributes.                                              *)

(* Mutant of emit_utterance: preroll.clear() is missing. *)
emit_utterance_keep_preroll(s, frames) ==
    [s EXCEPT !.submitted = Append(@, [seq |-> s.seq, audio |-> concatenate(frames)]),
              !.seq = @ + 1,
              !.in_speech = FALSE,
              !.speech_run = 0,
              !.silence_run = 0,
              !.speech_frames = <<>>]

(* Mutant of emit_utterance: self._seq is not advanced. *)
emit_utterance_same_seq(s, frames) ==
    [s EXCEPT !.submitted = Append(@, [seq |-> s.seq, audio |-> concatenate(frames)]),
              !.in_speech = FALSE,
              !.speech_run = 0,
              !.silence_run = 0,
              !.speech_frames = <<>>,
              !.preroll = <<>>]

(* Lines 157-171: the utterance takes the next number and is submitted,    *)
(* and the loop's state is reset.                                          *)
emit_utterance(s, frames) ==
    [s EXCEPT !.submitted = Append(@, [seq |-> s.seq, audio |-> concatenate(frames)]),
              !.seq = @ + 1,
              !.in_speech = FALSE,
              !.speech_run = 0,
              !.silence_run = 0,
              !.speech_frames = <<>>,
              !.preroll = <<>>]

(* Mutant of process_frame: a non-speech frame met while idle leaves        *)
(* speech_run as it is.                                                    *)
process_frame_no_reset(c, s0, frame) ==
    LET is_speech == rms_ge(frame, c.vad_rms_threshold)
        s == [s0 EXCEPT !.preroll = deque_append(@, frame, c.preroll_frames)]
    IN  IF ~s.in_speech
        THEN IF is_speech
             THEN IF s.speech_run + 1 >= c.min_speech_frames
                  THEN [s EXCEPT !.speech_run = @ + 1,
                                 !.in_speech = TRUE,
                                 !.silence_run = 0,
                                 !.speech_frames = s.preroll]
                  ELSE [s EXCEPT !.speech_run = @ + 1]
             ELSE s
        ELSE LET frames == Append(s.speech_frames, frame)
                 sil == IF is_speech THEN 0 ELSE s.silence_run + 1
             IN  IF sil >= c.hangover_frames \/ Len(frames) >= c.max_utt_frames
                 THEN emit_utterance(s, frames)
                 ELSE [s EXCEPT !.speech_frames = frames, !.silence_run = sil]

(* Mutant of process_frame: the Idle branch counts every frame, speech or   *)
(* not.                                                                    *)
process_frame_no_vad(c, s0, frame) ==
    LET is_speech == rms_ge(frame, c.vad_rms_threshold)
        s == [s0 EXCEPT !.preroll = deque_append(@, frame, c.preroll_frames)]
    IN  IF ~s.in_speech
        THEN IF s.speech_run + 1 >= c.min_speech_frames
             THEN [s EXCEPT !.speech_run = @ + 1,
                            !.in_speech = TRUE,
                            !.silence_run = 0,
                            !.speech_frames = s.preroll]
             ELSE [s EXCEPT !.speech_run = @ + 1]
        ELSE LET frames == Append(s.speech_frames, frame)
                 sil == IF is_speech THEN 0 ELSE s.silence_run + 1
             IN  IF sil >= c.hangover_frames \/ Len(frames) >= c.max_utt_frames
                 THEN emit_utterance(s, frames)
                 ELSE [s EXCEPT !.speech_frames = frames, !.silence_run = sil]

(* Mutant of process_frame: a speech frame met while accumulating leaves   *)
(* silence_run as it is.                                                   *)
process_frame_sticky_silence(c, s0, frame) ==
    LET is_speech == rms_ge(frame, c.vad_rms_threshold)
        s == [s0 EXCEPT !.preroll = deque_append(@, frame, c.preroll_frames)]
    IN  IF ~s.in_speech
        THEN IF is_speech
             THEN IF s.speech_run + 1 >= c.min_speech_frames
                  THEN [s EXCEPT !.speech_run = @ + 1,
                                 !.in_speech = TRUE,
                                 !.silence_run = 0,
                                 !.speech_frames = s.preroll]
                  ELSE [s EXCEPT !.speech_run = @ + 1]
             ELSE [s EXCEPT !.speech_run = 0]
        ELSE LET frames == Append(s.speech_frames, frame)
                 sil == IF is_speech THEN s.silence_run ELSE s.silence_run + 1
             IN  IF sil >= c.hangover_frames \/ Len(frames) >= c.max_utt_frames
                 THEN emit_utterance(s, frames)
                 ELSE [s EXCEPT !.speech_frames = frames, !.silence_run = sil]

(* Mutant of process_frame: the hangover test is off by one, the utterance *)
(* ends one non-speech frame late.                                         *)
process_frame_late_hangover(c, s0, frame) ==
    LET is_speech == rms_ge(frame, c.vad_rms_threshold)
        s == [s0 EXCEPT !.preroll = deque_append(@, frame, c.preroll_frames)]
    IN  IF ~s.in_speech
        THEN IF is_speech
             THEN IF s.speech_run + 1 >= c.min_speech_frames
                  THEN [s EXCEPT !.speech_run = @ + 1,
                                 !.in_speech = TRUE,
                                 !.silence_run = 0,
                                 !.speech_frames = s.preroll]
                  ELSE [s EXCEPT !.speech_run = @ + 1]
             ELSE [s EXCEPT !.speech_run = 0]
        ELSE LET frames == Append(s.speech_frames, frame)
                 sil == IF is_speech THEN 0 ELSE s.silence_run + 1
             IN  IF sil > c.hangover_frames \/ Len(frames) >= c.max_utt_frames
                 THEN emit_utterance(s, frames)
                 ELSE [s EXCEPT !.speech_frames = frames, !.silence_run = sil]

(* Lines 131-171: one frame through the state machine. *)
(* Mutant of process_frame: the preroll is fed in Idle only. *)
process_frame_idle_preroll(c, s0, frame) ==
    LET is_speech == rms_ge(frame, c.vad_rms_threshold)
        s == IF s0.in_speech THEN s0
             ELSE [s0 EXCEPT !.preroll = deque_append(@, frame, c.preroll_frames)]
    IN  IF ~s.in_speech
        THEN IF is_speech
             THEN IF s.speech_run + 1 >= c.min_speech_frames
                  THEN [s EXCEPT !.speech_run = @ + 1,
                                 !.in_speech = TRUE,
                                 !.silence_run = 0,
                                 !.speech_frames = s.preroll]
                  ELSE [s EXCEPT !.speech_run = @ + 1]
             ELSE [s EXCEPT !.speech_run = 0]
        ELSE LET frames == Append(s.speech_frames, frame)
                 sil == IF is_speech THEN 0 ELSE s.silence_run + 1
             IN  IF sil >= c.hangover_frames \/ Len(frames) >= c.max_utt_frames
                 THEN emit_utterance(s, frames)
                 ELSE [s EXCEPT !.speech_frames = frames, !.silence_run = sil]

(* Mutant of process_frame: a non-speech frame is counted, not appended. *)
process_frame_skip_silence(c, s0, frame) ==
    LET is_speech == rms_ge(frame, c.vad_rms_threshold)
        s == [s0 EXCEPT !.preroll = deque_append(@, frame, c.preroll_frames)]
    IN  IF ~s.in_speech
        THEN IF is_speech
             THEN IF s.speech_run + 1 >= c.min_speech_frames
                  THEN [s EXCEPT !.speech_run = @ + 1,
                                 !.in_speech = TRUE,
                                 !.silence_run = 0,
                                 !.speech_frames = s.preroll]
                  ELSE [s EXCEPT !.speech_run = @ + 1]
             ELSE [s EXCEPT !.speech_run = 0]
        ELSE LET frames == IF is_speech THEN Append(s.speech_frames, frame)
                           ELSE s.speech_frames
                 sil == IF is_speech THEN 0 ELSE s.silence_run + 1
             IN  IF sil >= c.hangover_frames \/ Len(frames) >= c.max_utt_frames
                 THEN emit_utterance(s, frames)
                 ELSE [s EXCEPT !.speech_frames = frames, !.silence_run = sil]

process_frame(c, s0, frame) ==
    LET is_speech == rms_ge(frame, c.vad_rms_threshold)
        s == [s0 EXCEPT !.preroll = deque_append(@, frame, c.preroll_frames)]
    IN  IF ~s.in_speech
        THEN IF is_speech
             THEN IF s.speech_run + 1 >= c.min_speech_frames
                  THEN [s EXCEPT !.speech_run = @ + 1,
                                 !.in_speech = TRUE,
                                 !.silence_run = 0,
                                 !.speech_frames = s.preroll]
                  ELSE [s EXCEPT !.speech_run = @ + 1]
             ELSE [s EXCEPT !.speech_run = 0]
        ELSE LET frames == Append(s.speech_frames, frame)
                 sil == IF is_speech THEN 0 ELSE s.silence_run + 1
             IN  IF sil >= c.hangover_frames \/ Len(frames) >= c.max_utt_frames
                 THEN emit_utterance(s, frames)
                 ELSE [s EXCEPT !.speech_frames = frames, !.silence_run = sil]

(* Mutant of extend_buf: the samples left over from the block before are  *)
(* thrown away.                                                            *)
extend_buf_fresh(b, chunk) == chunk

(* buf = np.concatenate([buf, chunk]) *)
extend_buf(b, chunk) == b \o chunk

(* frame = buf[:self.frame_samples] *)
take_frame(b, n) == SubSeq(b, 1, n)

(* Mutant of drop_frame: one sample too many is cut off. *)
drop_frame_wide(b, n) == SubSeq(b, n + 2, Len(b))

(* buf = buf[self.frame_samples:] *)
drop_frame(b, n) == SubSeq(b, n + 1, Len(b))

RECURSIVE slice_frames(_, _)
slice_frames(c, s) ==
    IF Len(s.buf) >= c.frame_samples
    THEN slice_frames(c, process_frame(c,
             [s EXCEPT !.buf = drop_frame(@, c.frame_samples)],
             take_frame(s.buf, c.frame_samples)))
    ELSE s

----------------------------------------------------------------------------
(* Blocks, work items and results. *)

NoBlock == <<>>

(* Mutant of queue_full: the capacity test is off by one. *)
queue_full_late(q) == max_queue_chunks > 0 /\ Len(q) > max_queue_chunks

queue_full(q) == max_queue_chunks > 0 /\ Len(q) >= max_queue_chunks

new_task(u) == [state |-> "queued", audio |-> u.audio, raw |-> <<>>, ms |-> 0]

(* ex.submit for each utterance of subs, in order. *)
submit(t, subs) ==
    [k \in DOMAIN t \cup {subs[i].seq : i \in DOMAIN subs} |->
        IF k \in DOMAIN t THEN t[k]
        ELSE new_task(subs[CHOOSE i \in DOMAIN subs : subs[i].seq = k])]

done(t) == t.state \in {"ok", "raised"}

(* What transcribe_utterance returns for a call that did not raise; dur,   *)
(* len(audio) / sample_rate, is kept as the pair of the two.               *)
transcribe_utterance(t) ==
    [text |-> strip(t.raw), ms |-> t.ms, dur |-> <<Len(t.audio), self.sample_rate>>]

(* Mutant of drain: pops whatever is there, smallest first, without        *)
(* waiting for the next expected number.                                   *)
RECURSIVE drain_any(_)
drain_any(d) ==
    IF DOMAIN d.results # {}
    THEN LET k == CHOOSE k \in DOMAIN d.results : \A j \in DOMAIN d.results : k <= j
             r == d.results[k]
         IN  drain_any([results |-> MapPop(d.results, k),
                        next |-> d.next + 1,
                        emitted |-> Append(d.emitted, k),
                        sink |-> IF r.text # <<>> THEN Append(d.sink, r) ELSE d.sink])
    ELSE d

(* Mutant of drain: an "if" in place of the inner while, one pop a visit. *)
drain_one(d) ==
    IF d.next \in DOMAIN d.results
    THEN LET r == d.results[d.next]
         IN  [results |-> MapPop(d.results, d.next),
              next |-> d.next + 1,
              emitted |-> Append(d.emitted, d.next),
              sink |-> IF r.text # <<>> THEN Append(d.sink, r) ELSE d.sink]
    ELSE d

(* printer_loop's inner while: pop and print while the next one is there.  *)
RECURSIVE drain(_)
drain(d) ==
    IF d.next \in DOMAIN d.results
    THEN LET r == d.results[d.next]
         IN  drain([results |-> MapPop(d.results, d.next),
                    next |-> d.next + 1,
                    emitted |-> Append(d.emitted, d.next),
                    sink |-> IF r.text # <<>> THEN Append(d.sink, r) ELSE d.sink])
    ELSE d

----------------------------------------------------------------------------
(* The TTS cache of backend/main.py: an OrderedDict from key to            *)
(* (created_at, audio), here a sequence of entries, oldest first; the      *)
(* audio is told apart by the key it was made for and the time it was      *)
(* stored.                                                                 *)
MaxThreads == 2
MaxKeys == 3
MaxTime == 2

TtsThreads == 1..MaxThreads
TtsKeys == 1..MaxKeys
TtsCaps == 0..2
TtsTtls == 0..1
(* None as a return value; the audio of an entry is never empty. *)
None == <<>>
(* No call of _tts_cache_get has returned yet on this thread. *)
NoReturn == <<0>>
(* The lock is held by a thread of TtsThreads, or by none. *)
Unlocked == 0

has_key(d, key) == \E i \in DOMAIN d : d[i].key = key
dict_get(d, key) == d[CHOOSE i \in DOMAIN d : d[i].key = key]
dict_pop(d, key) == SelectSeq(d, LAMBDA e : e.key # key)

(* d[key] = item: a new key goes to the end, a known key keeps its place. *)
dict_setitem(d, key, item) ==
    IF has_key(d, key)
    THEN [i \in DOMAIN d |-> IF d[i].key = key THEN item ELSE d[i]]
    ELSE Append(d, item)

move_to_end(d, key) == Append(dict_pop(d, key), dict_get(d, key))

(* (now - ts) > _TTS_CACHE_TTL_SEC, tested only when the TTL is positive. *)
is_expired(e, now, ttl) == ttl > 0 /\ (now - e.ts) > ttl

(* Mutant of _tts_cache_get: a hit does not move the entry to the end. *)
_tts_cache_get_no_move(d, key, now, ttl) ==
    IF ~has_key(d, key)
    THEN [cache |-> d, ret |-> None]
    ELSE IF is_expired(dict_get(d, key), now, ttl)
         THEN [cache |-> dict_pop(d, key), ret |-> None]
         ELSE [cache |-> d, ret |-> dict_get(d, key).value]

(* _tts_cache_get under the lock: the cache it leaves and what it returns. *)
_tts_cache_get(d, key, now, ttl) ==
    IF ~has_key(d, key)
    THEN [cache |-> d, ret |-> None]
    ELSE IF is_expired(dict_get(d, key), now, ttl)
         THEN [cache |-> dict_pop(d, key), ret |-> None]
         ELSE [cache |-> move_to_end(d, key), ret |-> dict_get(d, key).value]

(* for k in expired: _TTS_CACHE.pop(k, None) *)
pop_expired(d, now, ttl) == SelectSeq(d, LAMBDA e : ~is_expired(e, now, ttl))

(* Mutant of popitem_while_over: the loop stops one entry over capacity. *)
RECURSIVE popitem_while_far_over(_, _)
popitem_while_far_over(d, max) ==
    IF Len(d) > max + 1 THEN popitem_while_far_over(Tail(d), max) ELSE d

(* while len(_TTS_CACHE) > _TTS_CACHE_MAX: popitem(last=False) *)
RECURSIVE popitem_while_over(_, _)
popitem_while_over(d, max) ==
    IF Len(d) > max THEN popitem_while_over(Tail(d), max) ELSE d

(* The module as imported, no request in progress. *)
tts_imported ==
    /\ _TTS_CACHE_MAX = 50
    /\ _TTS_CACHE_TTL_SEC = 600
    /\ _TTS_CACHE = <<>>
    /\ _TTS_CACHE_LOCK = Unlocked
    /\ time_now = 0
    /\ tts_pc = [t \in TtsThreads |-> "idle"]
    /\ tts_key = [t \in TtsThreads |-> 0]
    /\ tts_ret = [t \in TtsThreads |-> NoReturn]
    /\ tts_used = <<>>

----------------------------------------------------------------------------
(* The LiveTranscriber instance after __init__, run() not yet started. *)
run_init ==
    /\ audio_queue = <<>>
    /\ stop_event = FALSE
    /\ _seq = 0
    /\ _next_to_print = 0
    /\ _results = EmptyMap
    /\ _lock = "free"
    /\ cb_pc = "idle"
    /\ indata = NoBlock
    /\ pl_pc = "check"
    /\ buf = <<>>
    /\ preroll = <<>>
    /\ in_speech = FALSE
    /\ speech_frames = <<>>
    /\ speech_run = 0
    /\ silence_run = 0
    /\ futures = <<>>
    /\ new_futures = <<>>
    /\ fi = 0
    /\ tasks = EmptyMap
    /\ pr_pc = "check"
    /\ main_pc = "listening"
    /\ loud_produced = 0
    /\ utterances = <<>>
    /\ emitted = <<>>
    /\ sink = <<>>
    /\ attrs = self
    /\ frames_in = <<>>
    /\ opened_at = <<>>
    /\ closed_at = <<>>
    /\ cfg_yaml = config
    /\ last_pull = "none"
    /\ produced = <<>>
    /\ pulled = <<>>

Init ==
    /\ run_init
    /\ tts_imported

----------------------------------------------------------------------------
(* audio_callback, on the capture thread, while the input stream is open.  *)

(* The stop check and the first put_nowait. *)
put_nowait(data) ==
    /\ main_pc = "listening"
    /\ cb_pc = "idle"
    /\ data = LoudBlock => loud_produced < MaxLoud
    /\ IF stop_event
       THEN UNCHANGED <<audio_queue, cb_pc, indata, history>>
       ELSE LET block == data
            IN  /\ loud_produced' = loud_produced + (IF data = LoudBlock THEN 1 ELSE 0)
                /\ IF queue_full(audio_queue)
                   THEN /\ cb_pc' = "full"
                        /\ indata' = block
                        /\ UNCHANGED audio_queue
                   ELSE /\ audio_queue' = Append(audio_queue, block)
                        /\ UNCHANGED <<cb_pc, indata>>
    /\ UNCHANGED <<seg_history, last_pull, tts_state>>
    /\ UNCHANGED <<stop_event, _seq, _next_to_print, _results, _lock, pl_pc,
                   segmenter, futures, new_futures, fi, tasks, pr_pc, main_pc,
                   utterances, printed>>

CallbackPut(data) ==
    /\ put_nowait(data)
    /\ UNCHANGED queue_history

(* Mutant of CallbackEvict: a blocking get() in place of get_nowait(). *)
CallbackEvictBlocking ==
    /\ cb_pc = "full"
    /\ audio_queue # <<>>
    /\ audio_queue' = Tail(audio_queue)
    /\ cb_pc' = "reput"
    /\ UNCHANGED indata
    /\ UNCHANGED <<seg_history, last_pull, queue_history, tts_state>>
    /\ UNCHANGED <<stop_event, _seq, _next_to_print, _results, _lock, pl_pc,
                   segmenter, futures, new_futures, fi, tasks, pr_pc, main_pc,
                   loud_produced, utterances, printed>>

(* except queue.Full: get_nowait; queue.Empty here ends the callback.      *)
CallbackEvict ==
    /\ cb_pc = "full"
    /\ IF audio_queue # <<>>
       THEN /\ audio_queue' = Tail(audio_queue)
            /\ cb_pc' = "reput"
            /\ UNCHANGED indata
       ELSE /\ cb_pc' = "idle"
            /\ indata' = NoBlock
            /\ UNCHANGED audio_queue
    /\ UNCHANGED <<seg_history, last_pull, queue_history, tts_state>>
    /\ UNCHANGED <<stop_event, _seq, _next_to_print, _results, _lock, pl_pc,
                   segmenter, futures, new_futures, fi, tasks, pr_pc, main_pc,
                   loud_produced, utterances, printed>>

(* Mutant of CallbackReput: the block is put back at the head of the queue. *)
CallbackReputFront ==
    /\ cb_pc = "reput"
    /\ IF queue_full(audio_queue)
       THEN UNCHANGED audio_queue
       ELSE audio_queue' = <<indata>> \o audio_queue
    /\ cb_pc' = "idle"
    /\ indata' = NoBlock
    /\ UNCHANGED <<seg_history, last_pull, queue_history, tts_state>>
    /\ UNCHANGED <<stop_event, _seq, _next_to_print, _results, _lock, pl_pc,
                   segmenter, futures, new_futures, fi, tasks, pr_pc, main_pc,
                   loud_produced, utterances, printed>>

(* The second put_nowait; any exception is swallowed. *)
CallbackReput ==
    /\ cb_pc = "reput"
    /\ IF queue_full(audio_queue)
       THEN UNCHANGED audio_queue
       ELSE audio_queue' = Append(audio_queue, indata)
    /\ cb_pc' = "idle"
    /\ indata' = NoBlock
    /\ UNCHANGED <<seg_history, last_pull, queue_history, tts_state>>
    /\ UNCHANGED <<stop_event, _seq, _next_to_print, _results, _lock, pl_pc,
                   segmenter, futures, new_futures, fi, tasks, pr_pc, main_pc,
                   loud_produced, utterances, printed>>

----------------------------------------------------------------------------
(* process_loop, on its own thread. *)

(* while not self.stop_event.is_set() *)
LoopCheck ==
    /\ pl_pc = "check"
    /\ IF stop_event
       THEN pl_pc' = "flush" /\ fi' = 1
       ELSE pl_pc' = "get" /\ UNCHANGED fi
    /\ UNCHANGED <<seg_history, last_pull, queue_history, tts_state>>
    /\ UNCHANGED <<audio_queue, stop_event, _seq, _next_to_print, _results, _lock,
                   cb_pc, indata, segmenter, futures, new_futures, tasks, pr_pc,
                   main_pc, history, utterances, printed>>

(* audio_queue.get returns a block: cut it into frames, run the state      *)
(* machine on each, submit every utterance that completes.                 *)
get_block ==
    /\ pl_pc = "get"
    /\ audio_queue # <<>>
    /\ LET chunk == Head(audio_queue)
           s == slice_frames(self, [buf |-> extend_buf(buf, chunk), preroll |-> preroll,
                     in_speech |-> in_speech, speech_frames |-> speech_frames,
                     speech_run |-> speech_run, silence_run |-> silence_run,
                     seq |-> _seq, submitted |-> <<>>])
       IN  /\ audio_queue' = Tail(audio_queue)
           /\ buf' = s.buf
           /\ preroll' = s.preroll
           /\ in_speech' = s.in_speech
           /\ speech_frames' = s.speech_frames
           /\ speech_run' = s.speech_run
           /\ silence_run' = s.silence_run
           /\ _seq' = s.seq
           /\ tasks' = submit(tasks, s.submitted)
           /\ futures' = futures \o [i \in DOMAIN s.submitted |-> s.submitted[i].seq]
           /\ utterances' = utterances \o [i \in DOMAIN s.submitted |-> s.submitted[i].audio]
    /\ pl_pc' = "harvest"
    /\ fi' = 1
    /\ new_futures' = <<>>
    /\ last_pull' = "block"
    /\ UNCHANGED <<seg_history, tts_state>>
    /\ UNCHANGED <<stop_event, _next_to_print, _results, _lock, cb_pc, indata,
                   pr_pc, main_pc, history, printed>>

LoopGet ==
    /\ get_block
    /\ UNCHANGED queue_history

(* Mutant of LoopTimeout: the timeout abandons the utterance in progress. *)
LoopTimeoutReset ==
    /\ pl_pc = "get"
    /\ audio_queue = <<>>
    /\ pl_pc' = "check"
    /\ last_pull' = "timeout"
    /\ in_speech' = FALSE
    /\ speech_frames' = <<>>
    /\ speech_run' = 0
    /\ silence_run' = 0
    /\ UNCHANGED <<seg_history, queue_history, tts_state>>
    /\ UNCHANGED <<audio_queue, stop_event, _seq, _next_to_print, _results, _lock,
                   cb_pc, indata, buf, preroll, futures, new_futures, fi, tasks,
                   pr_pc, main_pc, history, utterances, printed>>

(* Mutant of LoopTimeout: get() without a timeout keeps waiting. *)
LoopTimeoutForever ==
    /\ pl_pc = "get"
    /\ audio_queue = <<>>
    /\ pl_pc' = "get"
    /\ last_pull' = "timeout"
    /\ UNCHANGED <<seg_history, queue_history, tts_state>>
    /\ UNCHANGED <<audio_queue, stop_event, _seq, _next_to_print, _results, _lock,
                   cb_pc, indata, segmenter, futures, new_futures, fi, tasks,
                   pr_pc, main_pc, history, utterances, printed>>

(* audio_queue.get times out: except queue.Empty: continue *)
LoopTimeout ==
    /\ pl_pc = "get"
    /\ audio_queue = <<>>
    /\ pl_pc' = "check"
    /\ last_pull' = "timeout"
    /\ UNCHANGED <<seg_history, queue_history, tts_state>>
    /\ UNCHANGED <<audio_queue, stop_event, _seq, _next_to_print, _results, _lock,
                   cb_pc, indata, segmenter, futures, new_futures, fi, tasks,
                   pr_pc, main_pc, history, utterances, printed>>

(* The harvest loop has looked at every future: futures = new_futures. *)
HarvestEnd ==
    /\ pl_pc = "harvest"
    /\ fi > Len(futures)
    /\ futures' = new_futures
    /\ new_futures' = <<>>
    /\ pl_pc' = "check"
    /\ UNCHANGED <<seg_history, last_pull, queue_history, tts_state>>
    /\ UNCHANGED <<audio_queue, stop_event, _seq, _next_to_print, _results, _lock,
                   cb_pc, indata, segmenter, fi, tasks, pr_pc, main_pc, history,
                   utterances, printed>>

(* One future of the harvest loop: not done, it is kept; done, f.result()  *)
(* returns the tuple to store, or raises what the call raised.             *)
Harvest ==
    /\ pl_pc = "harvest"
    /\ fi <= Len(futures)
    /\ LET f == tasks[futures[fi]]
       IN  IF ~done(f)
           THEN /\ new_futures' = Append(new_futures, futures[fi])
                /\ fi' = fi + 1
                /\ UNCHANGED pl_pc
           ELSE /\ pl_pc' = IF f.state = "raised" THEN "unwind" ELSE "harvest_lock"
                /\ UNCHANGED <<new_futures, fi>>
    /\ UNCHANGED <<seg_history, last_pull, queue_history, tts_state>>
    /\ UNCHANGED <<audio_queue, stop_event, _seq, _next_to_print, _results, _lock,
                   cb_pc, indata, segmenter, futures, tasks, pr_pc, main_pc,
                   history, utterances, printed>>

(* "flush remaining": f.result() waits for the future, then as in harvest. *)
Flush ==
    /\ pl_pc = "flush"
    /\ fi <= Len(futures)
    /\ done(tasks[futures[fi]])
    /\ pl_pc' = IF tasks[futures[fi]].state = "raised" THEN "unwind" ELSE "flush_lock"
    /\ UNCHANGED <<seg_history, last_pull, queue_history, tts_state>>
    /\ UNCHANGED <<audio_queue, stop_event, _seq, _next_to_print, _results, _lock,
                   cb_pc, indata, segmenter, futures, new_futures, fi, tasks,
                   pr_pc, main_pc, history, utterances, printed>>

FlushEnd ==
    /\ pl_pc = "flush"
    /\ fi > Len(futures)
    /\ pl_pc' = "shutdown"
    /\ UNCHANGED <<seg_history, last_pull, queue_history, tts_state>>
    /\ UNCHANGED <<audio_queue, stop_event, _seq, _next_to_print, _results, _lock,
                   cb_pc, indata, segmenter, futures, new_futures, fi, tasks,
                   pr_pc, main_pc, history, utterances, printed>>

(* with self._lock: (process_loop) *)
LoopAcquire ==
    /\ pl_pc \in {"harvest_lock", "flush_lock"}
    /\ _lock = "free"
    /\ _lock' = "process"
    /\ pl_pc' = IF pl_pc = "harvest_lock" THEN "harvest_store" ELSE "flush_store"
    /\ UNCHANGED <<seg_history, last_pull, queue_history, tts_state>>
    /\ UNCHANGED <<audio_queue, stop_event, _seq, _next_to_print, _results,
                   cb_pc, indata, segmenter, futures, new_futures, fi, tasks,
                   pr_pc, main_pc, history, utterances, printed>>

(* Mutant of LoopStore: the result is dropped instead of stored. *)
LoopStoreLost ==
    /\ pl_pc \in {"harvest_store", "flush_store"}
    /\ _lock' = "free"
    /\ fi' = fi + 1
    /\ pl_pc' = IF pl_pc = "harvest_store" THEN "harvest" ELSE "flush"
    /\ UNCHANGED <<seg_history, last_pull, queue_history, tts_state>>
    /\ UNCHANGED <<audio_queue, stop_event, _seq, _next_to_print, _results, cb_pc,
                   indata, segmenter, futures, new_futures, tasks, pr_pc, main_pc,
                   history, utterances, printed>>

(* self._results[seq] = (text, ms, dur), and the lock is released. *)
LoopStore ==
    /\ pl_pc \in {"harvest_store", "flush_store"}
    /\ _results' = MapPut(_results, futures[fi], transcribe_utterance(tasks[futures[fi]]))
    /\ _lock' = "free"
    /\ fi' = fi + 1
    /\ pl_pc' = IF pl_pc = "harvest_store" THEN "harvest" ELSE "flush"
    /\ UNCHANGED <<seg_history, last_pull, queue_history, tts_state>>
    /\ UNCHANGED <<audio_queue, stop_event, _seq, _next_to_print, cb_pc, indata,
                   segmenter, futures, new_futures, tasks, pr_pc, main_pc,
                   history, utterances, printed>>

(* Mutant of ExecutorExit: shutdown(wait=False). *)
ExecutorExitNoWait ==
    /\ pl_pc \in {"shutdown", "unwind"}
    /\ pl_pc' = IF pl_pc = "shutdown" THEN "done" ELSE "crashed"
    /\ UNCHANGED <<seg_history, last_pull, queue_history, tts_state>>
    /\ UNCHANGED <<audio_queue, stop_event, _seq, _next_to_print, _results, _lock,
                   cb_pc, indata, segmenter, futures, new_futures, fi, tasks,
                   pr_pc, main_pc, history, utterances, printed>>

(* Leaving "with ThreadPoolExecutor(...) as ex": shutdown(wait=True), on   *)
(* the normal path and on the way out of an exception alike.               *)
ExecutorExit ==
    /\ pl_pc \in {"shutdown", "unwind"}
    /\ \A k \in DOMAIN tasks : done(tasks[k])
    /\ pl_pc' = IF pl_pc = "shutdown" THEN "done" ELSE "crashed"
    /\ UNCHANGED <<seg_history, last_pull, queue_history, tts_state>>
    /\ UNCHANGED <<audio_queue, stop_event, _seq, _next_to_print, _results, _lock,
                   cb_pc, indata, segmenter, futures, new_futures, fi, tasks,
                   pr_pc, main_pc, history, utterances, printed>>

----------------------------------------------------------------------------
(* The executor's worker threads. *)

running == {k \in DOMAIN tasks : tasks[k].state = "running"}
queued == {k \in DOMAIN tasks : tasks[k].state = "queued"}

(* An idle worker takes the oldest work item. *)
WorkerStart(k) ==
    /\ k \in queued
    /\ \A j \in queued : k <= j
    /\ Cardinality(running) < max_workers
    /\ tasks' = [tasks EXCEPT ![k].state = "running"]
    /\ UNCHANGED <<seg_history, last_pull, queue_history, tts_state>>
    /\ UNCHANGED <<audio_queue, stop_event, _seq, _next_to_print, _results, _lock,
                   cb_pc, indata, pl_pc, segmenter, futures, new_futures, fi,
                   pr_pc, main_pc, history, utterances, printed>>

(* whisper.transcribe returns out.raw after out.ms milliseconds. *)
WorkerReturn(k, out) ==
    /\ k \in running
    /\ tasks' = [tasks EXCEPT ![k].state = "ok", ![k].raw = out.raw, ![k].ms = out.ms]
    /\ UNCHANGED <<seg_history, last_pull, queue_history, tts_state>>
    /\ UNCHANGED <<audio_queue, stop_event, _seq, _next_to_print, _results, _lock,
                   cb_pc, indata, pl_pc, segmenter, futures, new_futures, fi,
                   pr_pc, main_pc, history, utterances, printed>>

(* whisper.transcribe raises: the future holds the exception. *)
WorkerRaise(k) ==
    /\ k \in running
    /\ tasks' = [tasks EXCEPT ![k].state = "raised"]
    /\ UNCHANGED <<seg_history, last_pull, queue_history, tts_state>>
    /\ UNCHANGED <<audio_queue, stop_event, _seq, _next_to_print, _results, _lock,
                   cb_pc, indata, pl_pc, segmenter, futures, new_futures, fi,
                   pr_pc, main_pc, history, utterances, printed>>

----------------------------------------------------------------------------
(* printer_loop, on its own thread. *)

PrinterCheck ==
    /\ pr_pc = "check"
    /\ pr_pc' = IF stop_event THEN "done" ELSE "lock"
    /\ UNCHANGED <<seg_history, last_pull, queue_history, tts_state>>
    /\ UNCHANGED <<audio_queue, stop_event, _seq, _next_to_print, _results, _lock,
                   cb_pc, indata, pl_pc, segmenter, futures, new_futures, fi,
                   tasks, main_pc, history, utterances, printed>>

(* Mutant of PrinterAcquire: the drain is entered without taking the lock. *)
PrinterAcquireNoLock ==
    /\ pr_pc = "lock"
    /\ _lock' = "printer"
    /\ pr_pc' = "drain"
    /\ UNCHANGED <<seg_history, last_pull, queue_history, tts_state>>
    /\ UNCHANGED <<audio_queue, stop_event, _seq, _next_to_print, _results,
                   cb_pc, indata, pl_pc, segmenter, futures, new_futures, fi,
                   tasks, main_pc, history, utterances, printed>>

PrinterAcquire ==
    /\ pr_pc = "lock"
    /\ _lock = "free"
    /\ _lock' = "printer"
    /\ pr_pc' = "drain"
    /\ UNCHANGED <<seg_history, last_pull, queue_history, tts_state>>
    /\ UNCHANGED <<audio_queue, stop_event, _seq, _next_to_print, _results,
                   cb_pc, indata, pl_pc, segmenter, futures, new_futures, fi,
                   tasks, main_pc, history, utterances, printed>>

(* The inner while under the lock, the release and the sleep. *)
PrinterDrain ==
    /\ pr_pc = "drain"
    /\ LET d == drain([results |-> _results, next |-> _next_to_print,
                       emitted |-> emitted, sink |-> sink])
       IN  /\ _results' = d.results
           /\ _next_to_print' = d.next
           /\ emitted' = d.emitted
           /\ sink' = d.sink
    /\ _lock' = "free"
    /\ pr_pc' = "check"
    /\ UNCHANGED <<seg_history, last_pull, queue_history, tts_state>>
    /\ UNCHANGED <<audio_queue, stop_event, _seq, cb_pc, indata, pl_pc, segmenter,
                   futures, new_futures, fi, tasks, main_pc, history, utterances>>

----------------------------------------------------------------------------
(* run(), on the main thread. *)

(* Ctrl+C in the sleep loop: the input stream is closed on the way out of  *)
(* its with block, which waits for a callback in progress.                 *)
KeyboardInterrupt ==
    /\ main_pc = "listening"
    /\ cb_pc = "idle"
    /\ main_pc' = "finally"
    /\ UNCHANGED <<seg_history, last_pull, queue_history, tts_state>>
    /\ UNCHANGED <<audio_queue, stop_event, _seq, _next_to_print, _results, _lock,
                   cb_pc, indata, pl_pc, segmenter, futures, new_futures, fi,
                   tasks, pr_pc, history, utterances, printed>>

(* finally: self.stop_event.set() *)
RunStop ==
    /\ main_pc = "finally"
    /\ stop_event' = TRUE
    /\ main_pc' = "join"
    /\ UNCHANGED <<seg_history, last_pull, queue_history, tts_state>>
    /\ UNCHANGED <<audio_queue, _seq, _next_to_print, _results, _lock,
                   cb_pc, indata, pl_pc, segmenter, futures, new_futures, fi,
                   tasks, pr_pc, history, utterances, printed>>

(* process_thread.join() returns once process_loop has ended. *)
RunJoin ==
    /\ main_pc = "join"
    /\ pl_pc \in {"done", "crashed"}
    /\ main_pc' = "returned"
    /\ UNCHANGED <<seg_history, last_pull, queue_history, tts_state>>
    /\ UNCHANGED <<audio_queue, stop_event, _seq, _next_to_print, _results, _lock,
                   cb_pc, indata, pl_pc, segmenter, futures, new_futures, fi,
                   tasks, pr_pc, history, utterances, printed>>

----------------------------------------------------------------------------
Callback ==
    \/ \E data \in {SilentBlock, LoudBlock} : CallbackPut(data)
    \/ CallbackEvict
    \/ CallbackReput

(* process_loop while stop is not set. *)
ProcessLoop ==
    \/ LoopCheck
    \/ LoopGet
    \/ LoopTimeout
    \/ Harvest
    \/ HarvestEnd
    \/ LoopAcquire
    \/ LoopStore

(* process_loop once stop is set, or an exception is on its way out. *)
ProcessLoopEnd ==
    \/ Flush
    \/ FlushEnd
    \/ ExecutorExit

WorkerRun ==
    \/ \E k \in DOMAIN tasks : WorkerStart(k)
    \/ \E k \in DOMAIN tasks, out \in Outcomes : WorkerReturn(k, out)

WorkerFail == \E k \in DOMAIN tasks : WorkerRaise(k)

Printer ==
    \/ PrinterCheck
    \/ PrinterAcquire
    \/ PrinterDrain

Run ==
    \/ KeyboardInterrupt
    \/ RunStop
    \/ RunJoin

Next ==
    \/ Callback
    \/ ProcessLoop
    \/ ProcessLoopEnd
    \/ WorkerRun
    \/ WorkerFail
    \/ Printer
    \/ Run

Spec == Init /\ [][Next]_vars

(* The runs in which no stop is requested and every transcription call     *)
(* returns, under the scheduling the threads get: the capture stream keeps *)
(* calling the callback while it is open, every thread that can take a     *)
(* step eventually takes one (a thread waiting for the lock gets it: the   *)
(* printer sleeps between two drains), and an idle worker takes the next   *)
(* work item. How long a transcription call takes is the environment's.    *)
LiveNext ==
    \/ Callback
    \/ ProcessLoop
    \/ WorkerRun
    \/ Printer

LiveSpec ==
    /\ Init
    /\ [][LiveNext]_vars
    /\ WF_vars(Callback)
    /\ SF_vars(ProcessLoop)
    /\ SF_vars(Printer)
    /\ WF_vars(\E k \in DOMAIN tasks : WorkerStart(k))

----------------------------------------------------------------------------
(* The frame loop of process_loop on its own, for the claims about the     *)
(* segmenter: the configuration is drawn from SegConfigs, __init__ derives *)
(* the frame counts from it, and the loop body is applied to one frame     *)
(* after another, for every frame sequence of up to MaxFrames frames. A    *)
(* frame is one sample (sample_rate 1, frame_ms 1000); with the threshold  *)
(* at 2 the frames <<0>> and <<1>> are non-speech and the other two are    *)
(* speech.                                                                 *)

MaxFrames == 5
MaxMinSpeech == 2
MaxHangover == 2
MaxPreroll == 2
MaxUtt == 4

SegConfigs ==
    {[sample_rate |-> 1, blocksize |-> 1, frame_ms |-> 1000,
      vad_rms_threshold |-> 2, min_speech_ms |-> m * 1000,
      hangover_ms |-> h * 1000, preroll_ms |-> p * 1000,
      max_utterance_sec |-> u] :
        m \in 1..MaxMinSpeech, h \in 1..MaxHangover, p \in 1..MaxPreroll,
        u \in 1..MaxUtt}

SegFrames == {<<0>>, <<1>>, <<Loud>>, <<Loud + 1>>}

SegInit ==
    /\ cfg_yaml \in SegConfigs
    /\ attrs = LiveTranscriber(cfg_yaml)
    /\ last_pull = "none"
    /\ produced = <<>>
    /\ pulled = <<>>
    /\ tts_imported
    /\ audio_queue = <<>>
    /\ stop_event = FALSE
    /\ _seq = 0
    /\ _next_to_print = 0
    /\ _results = EmptyMap
    /\ _lock = "free"
    /\ cb_pc = "idle"
    /\ indata = NoBlock
    /\ pl_pc = "get"
    /\ buf = <<>>
    /\ preroll = <<>>
    /\ in_speech = FALSE
    /\ speech_frames = <<>>
    /\ speech_run = 0
    /\ silence_run = 0
    /\ futures = <<>>
    /\ new_futures = <<>>
    /\ fi = 0
    /\ tasks = EmptyMap
    /\ pr_pc = "check"
    /\ main_pc = "listening"
    /\ loud_produced = 0
    /\ utterances = <<>>
    /\ emitted = <<>>
    /\ sink = <<>>
    /\ frames_in = <<>>
    /\ opened_at = <<>>
    /\ closed_at = <<>>

(* The body of "while len(buf) >= self.frame_samples" on one frame: the    *)
(* state machine, the submission, and the histories.                       *)
frame_step(frame) ==
    /\ LET s == process_frame(attrs, [buf |-> buf, preroll |-> preroll,
                    in_speech |-> in_speech, speech_frames |-> speech_frames,
                    speech_run |-> speech_run, silence_run |-> silence_run,
                    seq |-> _seq, submitted |-> <<>>], frame)
           t == Len(frames_in) + 1
       IN  /\ preroll' = s.preroll
           /\ in_speech' = s.in_speech
           /\ speech_frames' = s.speech_frames
           /\ speech_run' = s.speech_run
           /\ silence_run' = s.silence_run
           /\ _seq' = s.seq
           /\ tasks' = submit(tasks, s.submitted)
           /\ futures' = futures \o [i \in DOMAIN s.submitted |-> s.submitted[i].seq]
           /\ utterances' = utterances \o [i \in DOMAIN s.submitted |-> s.submitted[i].audio]
           /\ frames_in' = Append(frames_in, frame)
           /\ opened_at' = IF ~in_speech /\ s.in_speech
                           THEN Append(opened_at, t) ELSE opened_at
           /\ closed_at' = IF s.submitted # <<>>
                           THEN Append(closed_at, t) ELSE closed_at
    /\ UNCHANGED <<audio_queue, stop_event, _next_to_print, _results, _lock,
                   cb_pc, indata, new_futures, fi, pr_pc, main_pc,
                   loud_produced, printed, attrs, cfg_yaml, last_pull,
                   produced, tts_state>>

(* One pass of "while len(buf) >= self.frame_samples" on the next frame.   *)
LoopFrame(frame) ==
    /\ frame_step(frame)
    /\ UNCHANGED <<pl_pc, buf, pulled>>

SegFrame(frame) ==
    /\ Len(frames_in) < MaxFrames
    /\ LoopFrame(frame)

SegNext == \E frame \in SegFrames : SegFrame(frame)

SegSpec == SegInit /\ [][SegNext]_vars

----------------------------------------------------------------------------
(* The frame loop on one long stream: silence, then scenario.speech_ms of  *)
(* frames at amplitude Loud, then silence, with the values __init__ uses   *)
(* when config.yaml leaves the keys out (frame_ms 20, threshold 0.010,     *)
(* min_speech_ms 250, hangover_ms 500, preroll_ms 200, max_utterance_sec   *)
(* 12), and a sample rate at which a frame is one sample.                  *)

scenario_config ==
    [sample_rate |-> 50, blocksize |-> 1, frame_ms |-> 20,
     vad_rms_threshold |-> 1, min_speech_ms |-> 250, hangover_ms |-> 500,
     preroll_ms |-> 200, max_utterance_sec |-> 12]

scenario == [speech_ms |-> 5000]

(* Bounds: the silent frames before the speech, and after it. *)
ScenLead == 12
ScenTail == 30

SpeechFrames == scenario.speech_ms \div scenario_config.frame_ms

LoudCount == Cardinality({i \in DOMAIN frames_in : frames_in[i] = <<Loud>>})

(* The silent frames fed since the last loud one. *)
Trailing ==
    LET ls == {i \in DOMAIN frames_in : frames_in[i] = <<Loud>>}
    IN  IF ls = {} THEN Len(frames_in)
        ELSE Len(frames_in) - (CHOOSE i \in ls : \A j \in ls : j <= i)

ScenInit ==
    /\ cfg_yaml = scenario_config
    /\ attrs = LiveTranscriber(cfg_yaml)
    /\ last_pull = "none"
    /\ produced = <<>>
    /\ pulled = <<>>
    /\ tts_imported
    /\ audio_queue = <<>>
    /\ stop_event = FALSE
    /\ _seq = 0
    /\ _next_to_print = 0
    /\ _results = EmptyMap
    /\ _lock = "free"
    /\ cb_pc = "idle"
    /\ indata = NoBlock
    /\ pl_pc = "get"
    /\ buf = <<>>
    /\ preroll = <<>>
    /\ in_speech = FALSE
    /\ speech_frames = <<>>
    /\ speech_run = 0
    /\ silence_run = 0
    /\ futures = <<>>
    /\ new_futures = <<>>
    /\ fi = 0
    /\ tasks = EmptyMap
    /\ pr_pc = "check"
    /\ main_pc = "listening"
    /\ loud_produced = 0
    /\ utterances = <<>>
    /\ emitted = <<>>
    /\ sink = <<>>
    /\ frames_in = <<>>
    /\ opened_at = <<>>
    /\ closed_at = <<>>

(* A silent frame: before the speech, or after all of it. *)
ScenSilence ==
    /\ \/ LoudCount = 0 /\ Len(frames_in) < ScenLead
       \/ LoudCount = SpeechFrames /\ Trailing < ScenTail
    /\ LoopFrame(<<0>>)

(* A frame of the speech: it starts after at least one silent frame and    *)
(* goes on without a gap.                                                  *)
ScenSpeech ==
    /\ \/ LoudCount = 0 /\ Len(frames_in) >= 1
       \/ LoudCount > 0 /\ LoudCount < SpeechFrames
    /\ LoopFrame(<<Loud>>)

ScenNext == ScenSilence \/ ScenSpeech

ScenSpec == ScenInit /\ [][ScenNext]_vars

----------------------------------------------------------------------------
(* Construction on configurations that hold non-positive values, followed  *)
(* by the frame loop when __init__ did not raise. Durations are multiples  *)
(* of frame_ms; a negative frame_ms is not drawn.                          *)

ConfConfigs ==
    {[sample_rate |-> 1, blocksize |-> 1, frame_ms |-> f,
      vad_rms_threshold |-> 2, min_speech_ms |-> m, hangover_ms |-> h,
      preroll_ms |-> p, max_utterance_sec |-> u, max_workers |-> w,
      max_queue_chunks |-> q] :
        f \in {0, 1000}, m \in {-1000, 0, 1000}, h \in {0, 1000},
        p \in {0, 1000}, u \in {-1, 0, 2}, w \in {0, 1}, q \in {0, 1}}

NoAttrs == <<>>

ConfInit ==
    /\ cfg_yaml \in ConfConfigs
    /\ attrs = IF init_raises(cfg_yaml) THEN NoAttrs ELSE LiveTranscriber(cfg_yaml)
    /\ main_pc = IF init_raises(cfg_yaml) THEN "init_failed" ELSE "listening"
    /\ last_pull = "none"
    /\ produced = <<>>
    /\ pulled = <<>>
    /\ tts_imported
    /\ audio_queue = <<>>
    /\ stop_event = FALSE
    /\ _seq = 0
    /\ _next_to_print = 0
    /\ _results = EmptyMap
    /\ _lock = "free"
    /\ cb_pc = "idle"
    /\ indata = NoBlock
    /\ pl_pc = "get"
    /\ buf = <<>>
    /\ preroll = <<>>
    /\ in_speech = FALSE
    /\ speech_frames = <<>>
    /\ speech_run = 0
    /\ silence_run = 0
    /\ futures = <<>>
    /\ new_futures = <<>>
    /\ fi = 0
    /\ tasks = EmptyMap
    /\ pr_pc = "check"
    /\ loud_produced = 0
    /\ utterances = <<>>
    /\ emitted = <<>>
    /\ sink = <<>>
    /\ frames_in = <<>>
    /\ opened_at = <<>>
    /\ closed_at = <<>>

(* The frame loop runs only on an instance that was constructed. *)
ConfFrame(frame) ==
    /\ main_pc = "listening"
    /\ SegFrame(frame)

ConfNext == \E frame \in SegFrames : ConfFrame(frame)

ConfSpec == ConfInit /\ [][ConfNext]_vars

----------------
(* Properties. *)

Range(q) == {q[i] : i \in DOMAIN q}

(* C1: the sequence numbers printer_loop has popped so far are exactly     *)
(* 0,1,...,k-1 in that order (none before a smaller one, none twice), and  *)
(* a number is popped only when it and every smaller one has finished: a   *)
(* result that finished early waits in _results behind an unfinished one.  *)
C1_InOrderEmission ==
    /\ emitted = [i \in 1..Len(emitted) |-> i - 1]
    /\ Len(emitted) = _next_to_print
    /\ \A k \in Range(emitted) : \A j \in 0..k : tasks[j].state = "ok"
    /\ \A k \in DOMAIN _results :
          (\E j \in 0..(k - 1) : ~done(tasks[j])) => k \notin Range(emitted)

(* C1 witness: head-of-line blocking: result 1 is in the mapping while     *)
(* utterance 0 is still being transcribed and nothing has been popped.     *)
C1_Witness ==
    /\ 1 \in DOMAIN _results
    /\ tasks[0].state = "running"
    /\ emitted = <<>>

(* C2: with no stop requested and every transcription call returning,      *)
(* once the n utterances submitted so far have all completed (in whatever  *)
(* order), printer_loop eventually has popped all n of them; what it has   *)
(* popped is always 0,1,...,k-1 in that order, each once.                  *)
C2_AllEventuallyEmitted ==
    /\ \A n \in 1..MaxLoud :
          (_seq = n /\ \A k \in DOMAIN tasks : tasks[k].state = "ok")
             ~> (_next_to_print >= n)
    /\ [](emitted = [i \in 1..Len(emitted) |-> i - 1])

(* C2 witness: two utterances were submitted and completed, and both have  *)
(* been popped, in capture order, with nothing left in the mapping.        *)
C2_Witness ==
    /\ _seq = 2
    /\ emitted = <<0, 1>>
    /\ _results = EmptyMap

(* C3: the i-th line the sink receives is the result of the i-th utterance *)
(* the segmenter completed: its transcript, its latency, its duration.     *)
C3_SinkFollowsCapture ==
    \A i \in DOMAIN sink :
        /\ tasks[i - 1].state = "ok"
        /\ sink[i] = [text |-> strip(tasks[i - 1].raw), ms |-> tasks[i - 1].ms,
                      dur |-> <<Len(utterances[i]), self.sample_rate>>]

(* C4: once process_loop has ended, every sequence number whose            *)
(* transcription call raised has an entry in _results or has been popped.  *)
C4_FailedSlotFilled ==
    pl_pc \in {"done", "crashed"} =>
        \A k \in DOMAIN tasks :
            tasks[k].state = "raised" => k \in DOMAIN _results \/ k < _next_to_print

(* C5: an exception of a transcription call never leaves process_loop: the *)
(* loop is never unwinding from one and never ended by one.                *)
C5_FailureContained == pl_pc \notin {"unwind", "crashed"}

(* C6: when run() has returned after a stop, no utterance is still open:   *)
(* one that was open at the stop has been submitted.                       *)
C6_OpenUtteranceSubmitted ==
    (main_pc = "returned" /\ pl_pc = "done") => ~in_speech

(* C7: when run() has returned after a stop, every sequence number whose   *)
(* transcription completed has been popped by printer_loop, and _results   *)
(* holds nothing.                                                          *)
C7_CompletedEmittedAtReturn ==
    (main_pc = "returned" /\ pl_pc = "done") =>
        /\ _results = EmptyMap
        /\ \A k \in DOMAIN tasks : tasks[k].state = "ok" => k < _next_to_print

(* C8: when run() has returned, every transcription submitted to the pool  *)
(* has finished (returned or raised): none is left queued or running.      *)
C8_ReturnAfterAllTasks ==
    main_pc = "returned" => \A k \in DOMAIN tasks : done(tasks[k])

(* C8 witness: run() has returned and process_loop ended through its flush *)
(* with a future that was still outstanding when the stop was seen.        *)
C8_Witness ==
    /\ main_pc = "returned"
    /\ pl_pc = "done"
    /\ futures # <<>>

(* C9: the ingestion queue never holds more than max_queue_chunks blocks.  *)
C9_QueueBounded == Len(audio_queue) <= max_queue_chunks

(* C9 witness: the producer is ahead of the consumer: the callback found  *)
(* the queue at capacity and is about to evict.                            *)
C9_Witness ==
    /\ Len(audio_queue) = max_queue_chunks
    /\ cb_pc = "full"

(* C10: every callback made while stop is not set ends with its block the  *)
(* newest of the queue, and one that met a full queue evicts exactly one   *)
(* block, the oldest.                                                      *)
C10_NewestRetained ==
    [][/\ (cb_pc = "full" /\ cb_pc' = "reput") => audio_queue' = Tail(audio_queue)
       /\ (cb_pc # "idle" /\ cb_pc' = "idle") =>
             /\ audio_queue' # <<>>
             /\ audio_queue' = Append(audio_queue, indata)]_vars

(* C11: no submitted utterance is dropped: once process_loop has ended     *)
(* (after a stop, or otherwise), every utterance that was submitted to the *)
(* pool has had its entry stored in _results (it is there or was popped).  *)
C11_SubmittedYieldsEntry ==
    pl_pc \in {"done", "crashed"} =>
        \A k \in DOMAIN tasks : k \in DOMAIN _results \/ k < _next_to_print

(* C12: every sequence number printer_loop pops puts a line on the sink,   *)
(* an empty line when the text is empty: the sink has as many lines as     *)
(* numbers were popped, the i-th line being the text of number i-1.        *)
C12_EmptyTextPrinted ==
    /\ Len(sink) = Len(emitted)
    /\ \A i \in DOMAIN sink :
          i \in DOMAIN emitted /\ sink[i].text = strip(tasks[emitted[i]].raw)

(* C13: the numbers given out so far are 0,1,...,_seq-1, one per utterance *)
(* the segmenter completed and in the order it completed them: the k-th    *)
(* completed utterance is the argument of the work item numbered k-1, and  *)
(* the futures were appended in that order.                                *)
C13_SeqFollowsCompletion ==
    /\ _seq = Len(utterances)
    /\ DOMAIN tasks = 0..(_seq - 1)
    /\ \A k \in DOMAIN tasks : tasks[k].audio = utterances[k + 1]
    /\ futures = [i \in 1..Len(utterances) |-> i - 1]

(* C13 witness: two utterances with different audio were completed and     *)
(* numbered.                                                               *)
C13_Witness ==
    /\ _seq = 2
    /\ utterances[1] # utterances[2]
    /\ tasks[1].audio = utterances[2]

(* The frame history of the segmenter, read back. *)
is_speech_at(i) == rms_ge(frames_in[i], attrs.vad_rms_threshold)

(* The position of the last emission before frame t (0: none). *)
LastCloseBefore(t) ==
    LET cs == {c \in Range(closed_at) : c < t}
    IN  IF cs = {} THEN 0 ELSE CHOOSE c \in cs : \A d \in cs : d <= c

(* The segmenter was Idle when frame t arrived. *)
IdleBefore(t) ==
    Cardinality({o \in Range(opened_at) : o < t}) =
        Cardinality({c \in Range(closed_at) : c < t})

(* How many of the frames lo+1..hi, counted back from hi, are speech       *)
(* without interruption.                                                   *)
TrailingSpeech(lo, hi) ==
    CHOOSE n \in 0..(hi - lo) :
        /\ \A j \in (hi - n + 1)..hi : is_speech_at(j)
        /\ n = hi - lo \/ ~is_speech_at(hi - n)

(* C14: an utterance opens at frame t if and only if the segmenter was     *)
(* Idle when t arrived and the last min_speech_frames frames of that Idle  *)
(* period, t included, are all speech; while Idle the counter is the       *)
(* number of speech frames in a row just seen in that period (zero after a *)
(* non-speech frame), and on leaving Idle it is exactly min_speech_frames. *)
C14_OnsetAtMinSpeech ==
    /\ \A t \in 1..Len(frames_in) :
          t \in Range(opened_at) <=>
              /\ IdleBefore(t)
              /\ TrailingSpeech(LastCloseBefore(t), t) >= attrs.min_speech_frames
    /\ ~in_speech =>
          speech_run = TrailingSpeech(LastCloseBefore(Len(frames_in) + 1),
                                      Len(frames_in))
    /\ in_speech => speech_run = attrs.min_speech_frames

(* C14 witness: with min_speech_frames = 2, one speech frame, a non-speech *)
(* frame (the counter restarts), then two speech frames: the utterance     *)
(* opens at the fourth frame.                                              *)
C14_Witness ==
    /\ attrs.min_speech_frames = 2
    /\ Len(frames_in) = 4
    /\ is_speech_at(1) /\ ~is_speech_at(2)
    /\ opened_at = <<4>>
    /\ in_speech

Min(a, b) == IF a <= b THEN a ELSE b

(* The segmenter has just opened an utterance, on the last frame seen. *)
JustOpened ==
    /\ in_speech
    /\ opened_at # <<>>
    /\ opened_at[Len(opened_at)] = Len(frames_in)

(* C15: right after an utterance opened at frame t, it holds the           *)
(* preroll_frames frames that came before t (all of them when fewer have   *)
(* come since the preroll was last cleared) and then frame t, once; and    *)
(* silence_run is zero.                                                    *)
C15_SeededWithPreroll ==
    JustOpened =>
        LET t == Len(frames_in)
            n == Min(attrs.preroll_frames, t - 1 - LastCloseBefore(t))
        IN  /\ speech_frames = SubSeq(frames_in, t - n, t)
            /\ silence_run = 0

(* C16: right after an utterance opened at frame t, the min_speech_frames  *)
(* speech frames ending at t, whose run confirmed the onset, are all in    *)
(* the utterance, as its last frames.                                      *)
C16_OnsetRunKept ==
    JustOpened =>
        LET t == Len(frames_in)
            m == attrs.min_speech_frames
            n == Len(speech_frames)
        IN  /\ n >= m
            /\ SubSeq(speech_frames, n - m + 1, n) = SubSeq(frames_in, t - m + 1, t)

(* C17: no completed utterance has more frames than max_utt_frames (a      *)
(* frame is frame_samples samples of the utterance's audio).               *)
C17_UtteranceWithinCap ==
    \A i \in DOMAIN utterances :
        Len(utterances[i]) <= attrs.max_utt_frames * attrs.frame_samples

(* The frames the utterance opened at frame o starts with: what the        *)
(* preroll holds at o.                                                     *)
SeedLen(o) == Min(attrs.preroll_frames, o - LastCloseBefore(o))

(* Frame j ends the utterance opened at frame o: it is the last of         *)
(* hangover_frames non-speech frames in a row, all after o, or with it the *)
(* utterance has max_utt_frames frames.                                    *)
EndsAt(o, j) ==
    \/ /\ j - o >= attrs.hangover_frames
       /\ \A k \in (j - attrs.hangover_frames + 1)..j : ~is_speech_at(k)
    \/ SeedLen(o) + (j - o) >= attrs.max_utt_frames

Terminated(o) == \E j \in (o + 1)..Len(frames_in) : EndsAt(o, j)

(* C18: the utterances emitted are as many as the speech runs that reached *)
(* min_speech_frames (the onsets) and have since been ended by             *)
(* hangover_frames non-speech frames in a row or by the frame cap.         *)
C18_OnePerTerminatedRun ==
    Len(utterances) = Cardinality({o \in Range(opened_at) : Terminated(o)})

(* C18 witness: two runs, the first ended by the hangover at frame 2, the  *)
(* second by the cap at frame 5, two utterances.                           *)
C18_Witness ==
    /\ Len(utterances) = 2
    /\ closed_at = <<2, 5>>
    /\ attrs.max_utt_frames = 3
    /\ ~is_speech_at(2)
    /\ is_speech_at(5)

(* C19: as long as every frame so far is non-speech, the segmenter is Idle *)
(* with its counter at zero, no utterance has opened or been completed and *)
(* no sequence number has been given out.                                  *)
C19_SilenceYieldsNothing ==
    (\A i \in DOMAIN frames_in : ~is_speech_at(i)) =>
        /\ ~in_speech
        /\ speech_run = 0
        /\ opened_at = <<>>
        /\ utterances = <<>>
        /\ _seq = 0
        /\ tasks = EmptyMap

(* C19 witness: a whole stream of non-speech frames, among them frames     *)
(* with energy just below the threshold.                                   *)
C19_Witness ==
    /\ Len(frames_in) = MaxFrames
    /\ \A i \in DOMAIN frames_in : ~is_speech_at(i)
    /\ <<1>> \in Range(frames_in)
    /\ <<0>> \in Range(frames_in)
    /\ _seq = 0

(* C20: a frame emits the open utterance if and only if, with that frame,  *)
(* silence_run reaches hangover_frames or the utterance's frame count      *)
(* reaches max_utt_frames; so an utterance that stays open is below both   *)
(* limits.                                                                 *)
C20_EmittedExactlyAtLimit ==
    [][LET frame == frames_in'[Len(frames_in')]
           sil == IF rms_ge(frame, attrs.vad_rms_threshold)
                  THEN 0 ELSE silence_run + 1
       IN  /\ Len(utterances') > Len(utterances) <=>
                 /\ in_speech
                 /\ \/ sil = attrs.hangover_frames
                    \/ Len(speech_frames) + 1 = attrs.max_utt_frames
           /\ in_speech' =>
                 /\ silence_run' < attrs.hangover_frames
                 /\ Len(speech_frames') < attrs.max_utt_frames]_vars

(* C21: a step that emits an utterance leaves the segmenter Idle with      *)
(* speech_run and silence_run at zero, the preroll empty and no frame of   *)
(* the utterance kept in speech_frames.                                    *)
C21_ResetOnEmission ==
    [][Len(utterances') > Len(utterances) =>
          /\ ~in_speech'
          /\ speech_run' = 0
          /\ silence_run' = 0
          /\ preroll' = <<>>
          /\ speech_frames' = <<>>]_vars

(* C21 witness: an utterance of several frames was emitted on the frame    *)
(* just processed, after min_speech_frames = 2 and hangover_frames = 2 had *)
(* both counters above zero, and the segmenter is Idle and empty.          *)
C21_Witness ==
    /\ closed_at # <<>>
    /\ closed_at[Len(closed_at)] = Len(frames_in)
    /\ attrs.min_speech_frames = 2
    /\ attrs.hangover_frames = 2
    /\ ~is_speech_at(Len(frames_in))
    /\ Len(utterances[1]) >= 3
    /\ ~in_speech
    /\ preroll = <<>>

(* C22: a frame that arrives while an utterance is open is appended to it, *)
(* once, as its last frame (the utterance it completes ends with it), and  *)
(* silence_run becomes zero on a speech frame and one more on a non-speech *)
(* frame (an emission then resets it).                                     *)
C22_AccumulateEveryFrame ==
    [][in_speech =>
          LET frame == frames_in'[Len(frames_in')]
              sil == IF rms_ge(frame, attrs.vad_rms_threshold)
                     THEN 0 ELSE silence_run + 1
          IN  IF Len(utterances') > Len(utterances)
              THEN utterances'[Len(utterances')] =
                       concatenate(Append(speech_frames, frame))
              ELSE /\ speech_frames' = Append(speech_frames, frame)
                   /\ silence_run' = sil]_vars

(* C22 witness: an open utterance took a non-speech frame (silence_run 1)  *)
(* and then a speech frame, which put silence_run back to zero.            *)
C22_Witness ==
    /\ in_speech
    /\ opened_at = <<1>>
    /\ Len(frames_in) = 3
    /\ ~is_speech_at(2)
    /\ is_speech_at(3)
    /\ silence_run = 0
    /\ Len(speech_frames) = 3

(* The speech and the hangover_frames silent frames that end it are in. *)
ScenarioOver ==
    /\ LoudCount = SpeechFrames
    /\ Trailing >= attrs.hangover_frames

(* C23: the stream never yields a second utterance, and once the speech    *)
(* and the closing silence are in it has yielded exactly one; its length   *)
(* is the preroll, the speech after the min_speech_frames that confirmed   *)
(* it and the hangover, which is within one hangover of the 5 s of speech  *)
(* plus the preroll.                                                       *)
C23_ScenarioOneUtterance ==
    /\ Len(utterances) <= 1
    /\ ScenarioOver =>
          /\ Len(utterances) = 1
          /\ ~in_speech
          /\ Len(utterances[1]) =
                (attrs.preroll_frames + (SpeechFrames - attrs.min_speech_frames)
                   + attrs.hangover_frames) * attrs.frame_samples
          /\ Abs(Len(utterances[1])
                   - (SpeechFrames + attrs.preroll_frames) * attrs.frame_samples)
                <= attrs.hangover_frames * attrs.frame_samples

(* C23 witness: more silence than the preroll holds came first, the whole  *)
(* speech and the closing silence are in, and the one utterance was        *)
(* emitted on the last frame of the hangover.                              *)
C23_Witness ==
    /\ ScenarioOver
    /\ ~is_speech_at(1)
    /\ opened_at # <<>>
    /\ opened_at[1] > attrs.preroll_frames + attrs.min_speech_frames
    /\ Len(utterances) = 1
    /\ closed_at = <<Len(frames_in)>>

(* C24: at frame_ms = 20, min_speech_ms = 250 gives min_speech_frames = 13 *)
(* and hangover_ms = 500 gives hangover_frames = 25.                       *)
C24_DurationToFrames ==
    (cfg_yaml.frame_ms = 20 /\ cfg_yaml.min_speech_ms = 250
        /\ cfg_yaml.hangover_ms = 500) =>
        /\ attrs.min_speech_frames = 13
        /\ attrs.hangover_frames = 25

(* A configuration value the spec calls invalid: a non-positive duration,  *)
(* worker count or queue capacity.                                         *)
InvalidConfig(c) ==
    \/ c.frame_ms <= 0
    \/ c.min_speech_ms <= 0
    \/ c.hangover_ms <= 0
    \/ c.preroll_ms <= 0
    \/ c.max_utterance_sec <= 0
    \/ c.max_workers <= 0
    \/ c.max_queue_chunks <= 0

(* C25: a configuration holding an invalid value makes construction fail:  *)
(* no instance built from one ever processes a frame.                      *)
C25_InvalidConfigRejected ==
    InvalidConfig(cfg_yaml) =>
        /\ main_pc = "init_failed"
        /\ frames_in = <<>>

(* C26: wherever audio_callback stands between its queue operations, its   *)
(* next step can be taken at once, whatever the queue holds, whoever holds *)
(* the lock and whatever the workers do; and a step of the callback only   *)
(* touches the queue: it starts, runs and ends no transcription.           *)
C26_CallbackNeverWaits ==
    /\ cb_pc \in {"idle", "full", "reput"}
    /\ cb_pc = "full" => ENABLED CallbackEvict
    /\ cb_pc = "reput" => ENABLED CallbackReput
    /\ (cb_pc = "idle" /\ main_pc = "listening") =>
          ENABLED CallbackPut(SilentBlock)

(* C26 witness: the callback met a full queue, the consumer has since      *)
(* emptied it and holds the lock while a transcription is running, and the *)
(* callback is about to call get_nowait.                                   *)
C26_Witness ==
    /\ cb_pc = "full"
    /\ audio_queue = <<>>
    /\ _lock = "process"
    /\ running # {}

----------------------------------------------------------------------------
(* The runs in which every transcription call returns, under the           *)
(* scheduling the threads get: process_loop, the printer and the main      *)
(* thread take a step when they can (process_loop gets the lock: the       *)
(* printer sleeps between two drains), an idle worker takes the next work  *)
(* item and a running call returns. Nothing is assumed of the capture      *)
(* stream, nor of when, or whether, Ctrl+C is pressed.                     *)
StopNext ==
    \/ Callback
    \/ ProcessLoop
    \/ ProcessLoopEnd
    \/ WorkerRun
    \/ Printer
    \/ Run

StopSpec ==
    /\ Init
    /\ [][StopNext]_vars
    /\ SF_vars(ProcessLoop \/ ProcessLoopEnd)
    /\ WF_vars(Printer)
    /\ WF_vars(WorkerRun)
    /\ WF_vars(RunStop \/ RunJoin)

(* C27: once stop_event is set, process_loop ends and run() returns,       *)
(* whether or not any further block arrives, in every run in which the     *)
(* transcription calls return.                                             *)
C27_StopTerminates ==
    stop_event ~> (pl_pc = "done" /\ main_pc = "returned")

(* C27 witness: run() has returned after a stop that found process_loop    *)
(* with an empty queue (its last pull timed out) and a submitted task.     *)
C27_Witness ==
    /\ stop_event
    /\ main_pc = "returned"
    /\ pl_pc = "done"
    /\ last_pull = "timeout"
    /\ audio_queue = <<>>
    /\ DOMAIN tasks # {}

(* C28: a pull that times out takes process_loop back to its loop guard    *)
(* and changes nothing else: the state (in_speech), both run counters, the *)
(* preroll, the open utterance, the partial sample buffer, _seq and        *)
(* _results are what they were.                                            *)
C28_TimeoutChangesNothing ==
    [][(pl_pc = "get" /\ audio_queue = <<>> /\ pl_pc' # pl_pc) =>
          /\ pl_pc' = "check"
          /\ UNCHANGED <<buf, preroll, in_speech, speech_frames, speech_run,
                         silence_run>>
          /\ UNCHANGED <<_seq, _results, futures, tasks>>]_vars

(* C28 witness: the last pull timed out in the middle of an utterance,     *)
(* with a result already stored and process_loop back at its loop guard.   *)
C28_Witness ==
    /\ last_pull = "timeout"
    /\ pl_pc = "check"
    /\ in_speech
    /\ speech_frames # <<>>
    /\ _seq > 0
    /\ _results # EmptyMap

----------------------------------------------------------------------------
(* The runs of LiveSpec without its assumption on the capture stream: no   *)
(* stop is requested, every transcription call returns, process_loop, the  *)
(* printer and the workers are scheduled as in LiveSpec, and the stream    *)
(* may stop delivering blocks (the room is not silent: nothing arrives);   *)
(* a callback that has started runs to its end.                            *)
QuietSpec ==
    /\ Init
    /\ [][LiveNext]_vars
    /\ WF_vars(CallbackEvict \/ CallbackReput)
    /\ SF_vars(ProcessLoop)
    /\ SF_vars(Printer)
    /\ WF_vars(WorkerRun)

(* C29: a transcription that has returned is eventually inserted into      *)
(* _results (or has been, and was popped since), also when no further      *)
(* block arrives and stop is not requested.                                *)
C29_InsertedWithoutAudio ==
    \A k \in 0..(MaxLoud - 1) :
        (k \in DOMAIN tasks /\ tasks[k].state = "ok")
           ~> (k \in DOMAIN _results \/ k < _next_to_print)

(* C30: a drain step of printer_loop stops only when _next_to_print is not *)
(* a key of _results, advances _next_to_print by the number of entries it  *)
(* popped and removes exactly those entries; and at all times every key of *)
(* _results is at least _next_to_print and below _seq.                     *)
C30_DrainMaximalConsistent ==
    /\ [](\A k \in DOMAIN _results : _next_to_print <= k /\ k < _seq)
    /\ [][(pr_pc = "drain" /\ pr_pc' # "drain") =>
            LET popped == {emitted'[i] : i \in (Len(emitted) + 1)..Len(emitted')}
            IN  /\ _next_to_print' \notin DOMAIN _results'
                /\ Len(emitted') >= Len(emitted)
                /\ _next_to_print' - _next_to_print = Len(emitted') - Len(emitted)
                /\ popped = _next_to_print..(_next_to_print' - 1)
                /\ popped \subseteq DOMAIN _results
                /\ DOMAIN _results' = DOMAIN _results \ popped]_vars

(* C30 witness: a drain has popped entry 0 and ended, and the result of    *)
(* utterance 1 is in the mapping, between _next_to_print and _seq.         *)
C30_Witness ==
    /\ pr_pc = "check"
    /\ emitted = <<0>>
    /\ _next_to_print = 1
    /\ DOMAIN _results = {1}
    /\ _seq = 2

----------------------------------------------------------------------------
(* C31: _results and _next_to_print change only in a step of the thread    *)
(* that holds _lock, inside its "with self._lock" block; the drain of      *)
(* printer_loop and an insertion by process_loop are never inside their    *)
(* blocks at the same time; and _seq is written by process_loop only, in   *)
(* its frame loop.                                                         *)
C31_LockDiscipline ==
    /\ [](~(pr_pc = "drain" /\ pl_pc \in {"harvest_store", "flush_store"}))
    /\ [](pr_pc = "drain" => _lock = "printer")
    /\ [](pl_pc \in {"harvest_store", "flush_store"} => _lock = "process")
    /\ [][_results' # _results =>
            \/ _lock = "printer" /\ pr_pc = "drain" /\ pr_pc' = "check"
            \/ /\ _lock = "process"
               /\ pl_pc \in {"harvest_store", "flush_store"}
               /\ pl_pc' \in {"harvest", "flush"}
               /\ UNCHANGED _next_to_print]_vars
    /\ [][_next_to_print' # _next_to_print =>
            _lock = "printer" /\ pr_pc = "drain" /\ pr_pc' = "check"]_vars
    /\ [][_seq' # _seq => pl_pc = "get" /\ pl_pc' = "harvest"]_vars

(* C31 witness: process_loop is inside its block, about to insert a second *)
(* result, while the printer waits for the lock to drain the first.        *)
C31_Witness ==
    /\ _lock = "process"
    /\ pl_pc = "harvest_store"
    /\ pr_pc = "lock"
    /\ _results # EmptyMap

----------------------------------------------------------------------------
(* The first frame of the i-th completed utterance, as a position of the   *)
(* frame stream: it ended at frame closed_at[i] and a frame is             *)
(* frame_samples samples of its audio.                                     *)
FirstFrame(i) == closed_at[i] - (Len(utterances[i]) \div attrs.frame_samples) + 1

(* C32: the i-th completed utterance is the frames FirstFrame(i) to        *)
(* closed_at[i] of the frame stream, each once and in order; it contains   *)
(* the frame it opened at; and it starts after the frame the utterance     *)
(* before it ended at, so no frame is in two utterances and utterances     *)
(* follow capture order.                                                   *)
C32_UtterancesContiguousDisjoint ==
    /\ Len(closed_at) = Len(utterances)
    /\ \A i \in DOMAIN utterances :
          /\ Len(utterances[i]) % attrs.frame_samples = 0
          /\ FirstFrame(i) >= 1
          /\ FirstFrame(i) <= opened_at[i] /\ opened_at[i] < closed_at[i]
          /\ utterances[i] =
                concatenate(SubSeq(frames_in, FirstFrame(i), closed_at[i]))
          /\ i > 1 => FirstFrame(i) > closed_at[i - 1]

(* C32 witness: two utterances; the first is frames 1-2, the second is     *)
(* frames 3-5 and starts with a non-speech frame taken from the preroll.   *)
C32_Witness ==
    /\ closed_at = <<2, 5>>
    /\ Len(utterances) = 2
    /\ Len(utterances[2]) = 3 * attrs.frame_samples
    /\ ~is_speech_at(3)

(* C33: after every frame, in Idle and in Accumulating alike, the preroll  *)
(* holds at most preroll_frames frames and is exactly the frames processed *)
(* since the start of the stream or the last emission, in order: all of    *)
(* them while there are fewer than preroll_frames, the last preroll_frames *)
(* of them afterwards.                                                     *)
C33_PrerollIsRecentFrames ==
    LET t == Len(frames_in)
        since == t - LastCloseBefore(t + 1)
        n == Min(attrs.preroll_frames, since)
    IN  /\ Len(preroll) <= attrs.preroll_frames
        /\ Len(preroll) = n
        /\ preroll = SubSeq(frames_in, t - n + 1, t)

(* C33 witness: a ring of two frames, after an emission at frame 2 and in  *)
(* the middle of the next utterance: it holds frames 4 and 5, frame 3      *)
(* having been pushed out while Accumulating.                              *)
C33_Witness ==
    /\ attrs.preroll_frames = 2
    /\ closed_at = <<2>>
    /\ opened_at = <<1, 3>>
    /\ in_speech
    /\ Len(frames_in) = 5
    /\ preroll = <<frames_in[4], frames_in[5]>>
    /\ frames_in[3] # frames_in[4]

----------------------------------------------------------------------------
(* The ingestion queue between the capture callback and process_loop, with *)
(* blocks that can be told apart: the n-th block the stream delivers has   *)
(* all its samples at Loud + n. Up to MaxBlocks blocks are delivered; the  *)
(* callback and process_loop run as in Spec, and the two histories record  *)
(* what was delivered and what audio_queue.get returned.                   *)
MaxBlocks == 4

Block(n) == [i \in 1..self.blocksize |-> Loud + n]

QueuePut ==
    /\ Len(produced) < MaxBlocks
    /\ LET block == Block(Len(produced) + 1)
       IN  /\ put_nowait(block)
           /\ produced' = Append(produced, block)
    /\ UNCHANGED pulled

QueueGet ==
    /\ get_block
    /\ pulled' = Append(pulled, Head(audio_queue))
    /\ UNCHANGED produced

QueueNext ==
    \/ QueuePut
    \/ CallbackEvict
    \/ CallbackReput
    \/ LoopCheck
    \/ QueueGet
    \/ LoopTimeout
    \/ Harvest
    \/ HarvestEnd

QueueSpec == Init /\ [][QueueNext]_vars

(* The blocks process_loop has pulled, then those in the queue, then the   *)
(* one a callback in progress still has to enqueue.                        *)
InTransit ==
    pulled \o audio_queue \o (IF cb_pc \in {"full", "reput"} THEN <<indata>> ELSE <<>>)

(* C34: the blocks pulled so far followed by the contents of the queue     *)
(* are blocks the stream delivered, in the order it delivered them, none   *)
(* twice: dropping a block removes it and leaves the others in place.      *)
C34_QueueFifo ==
    /\ \A n \in DOMAIN produced : produced[n] = Block(n)
    /\ \E pos \in [DOMAIN InTransit -> DOMAIN produced] :
          /\ \A i \in DOMAIN InTransit : InTransit[i] = produced[pos[i]]
          /\ \A i, j \in DOMAIN InTransit : i < j => pos[i] < pos[j]
    /\ cb_pc \in {"full", "reput"} => indata = produced[Len(produced)]

(* C34 witness: block 1 was evicted by the callback that delivered block   *)
(* 3; process_loop then pulled block 2, and blocks 3 and 4 are queued.     *)
C34_Witness ==
    /\ Len(produced) = 4
    /\ pulled = <<Block(2)>>
    /\ audio_queue = <<Block(3), Block(4)>>

----------------------------------------------------------------------------
(* process_loop's pull and frame loop, one step per pass of the inner      *)
(* while, fed with blocks of unequal lengths: a frame is two samples, a    *)
(* block is one to MaxChunk samples, each 0 or Loud, and at most           *)
(* MaxSamples samples are pulled in all. No worker runs, so the harvest    *)
(* keeps every future.                                                     *)
MaxChunk == 3
MaxSamples == 6

SliceConfigs ==
    {[sample_rate |-> 2, blocksize |-> 1, frame_ms |-> 1000,
      vad_rms_threshold |-> 2, min_speech_ms |-> 1000, hangover_ms |-> 1000,
      preroll_ms |-> 1000 * p, max_utterance_sec |-> 3] : p \in 1..2}

SliceChunks ==
    UNION {[1..n -> {0, Loud}] : n \in 1..MaxChunk}

SliceInit ==
    /\ cfg_yaml \in SliceConfigs
    /\ attrs = LiveTranscriber(cfg_yaml)
    /\ last_pull = "none"
    /\ produced = <<>>
    /\ pulled = <<>>
    /\ tts_imported
    /\ audio_queue = <<>>
    /\ stop_event = FALSE
    /\ _seq = 0
    /\ _next_to_print = 0
    /\ _results = EmptyMap
    /\ _lock = "free"
    /\ cb_pc = "idle"
    /\ indata = NoBlock
    /\ pl_pc = "check"
    /\ buf = <<>>
    /\ preroll = <<>>
    /\ in_speech = FALSE
    /\ speech_frames = <<>>
    /\ speech_run = 0
    /\ silence_run = 0
    /\ futures = <<>>
    /\ new_futures = <<>>
    /\ fi = 0
    /\ tasks = EmptyMap
    /\ pr_pc = "check"
    /\ main_pc = "listening"
    /\ loud_produced = 0
    /\ utterances = <<>>
    /\ emitted = <<>>
    /\ sink = <<>>
    /\ frames_in = <<>>
    /\ opened_at = <<>>
    /\ closed_at = <<>>

(* chunk = self.audio_queue.get(...); buf = np.concatenate([buf, chunk]) *)
SlicePull(chunk) ==
    /\ pl_pc = "get"
    /\ Len(concatenate(pulled)) + Len(chunk) <= MaxSamples
    /\ buf' = extend_buf(buf, chunk)
    /\ pulled' = Append(pulled, chunk)
    /\ last_pull' = "block"
    /\ pl_pc' = "frames"
    /\ UNCHANGED <<audio_queue, stop_event, _seq, _next_to_print, _results, _lock,
                   cb_pc, indata, preroll, in_speech, speech_frames, speech_run,
                   silence_run, futures, new_futures, fi, tasks, pr_pc, main_pc,
                   loud_produced, utterances, printed, seg_history, produced,
                   tts_state>>

(* One pass of the inner while: cut a frame off buf and process it. *)
SliceFrame ==
    /\ pl_pc = "frames"
    /\ Len(buf) >= attrs.frame_samples
    /\ frame_step(take_frame(buf, attrs.frame_samples))
    /\ buf' = drop_frame(buf, attrs.frame_samples)
    /\ UNCHANGED <<pl_pc, pulled>>

(* The inner while ends: on to the harvest. *)
SliceEnd ==
    /\ pl_pc = "frames"
    /\ Len(buf) < attrs.frame_samples
    /\ pl_pc' = "harvest"
    /\ fi' = 1
    /\ new_futures' = <<>>
    /\ UNCHANGED <<audio_queue, stop_event, _seq, _next_to_print, _results, _lock,
                   cb_pc, indata, segmenter, futures, tasks, pr_pc, main_pc,
                   loud_produced, utterances, printed, seg_history, last_pull,
                   queue_history, tts_state>>

SliceNext ==
    \/ \E chunk \in SliceChunks : SlicePull(chunk)
    \/ SliceFrame
    \/ SliceEnd
    \/ Harvest
    \/ HarvestEnd
    \/ LoopCheck

SliceSpec == SliceInit /\ [][SliceNext]_vars

(* C35: whenever process_loop is not inside its frame loop, buf is shorter *)
(* than one frame; at all times the frames cut so far followed by buf are  *)
(* the samples of all the blocks pulled, in order; and every frame has     *)
(* frame_samples samples.                                                  *)
C35_SlicingLosesNothing ==
    /\ pl_pc # "frames" => Len(buf) < attrs.frame_samples
    /\ concatenate(frames_in) \o buf = concatenate(pulled)
    /\ \A i \in DOMAIN frames_in : Len(frames_in[i]) = attrs.frame_samples

(* C35 witness: a block of three samples, then one of two: the second      *)
(* frame is the last sample of the first block and the first sample of the *)
(* second, and one sample is left over.                                    *)
C35_Witness ==
    /\ Len(pulled) = 2
    /\ Len(pulled[1]) = 3 /\ Len(pulled[2]) = 2
    /\ pulled[1][3] # pulled[2][1]
    /\ Len(frames_in) = 2
    /\ frames_in[2] = <<pulled[1][3], pulled[2][1]>>
    /\ buf = <<pulled[2][2]>>
    /\ pl_pc = "harvest"

(* What process_loop has done with the samples pulled so far had they      *)
(* come as one block: the frame loop run from the initial locals on the    *)
(* whole stream.                                                           *)
OneBlockRun ==
    slice_frames(attrs, [buf |-> concatenate(pulled), preroll |-> <<>>,
                         in_speech |-> FALSE, speech_frames |-> <<>>,
                         speech_run |-> 0, silence_run |-> 0,
                         seq |-> 0, submitted |-> <<>>])

(* C36: once a block has been processed, the utterances submitted, their   *)
(* sequence numbers and the segmenter's state are those of the run that    *)
(* gets the same samples as a single block: any two ways of dividing one   *)
(* sample stream into blocks give the same utterances with the same        *)
(* numbers.                                                                *)
C36_BlockBoundariesIrrelevant ==
    pl_pc # "frames" =>
        /\ _seq = OneBlockRun.seq
        /\ DOMAIN tasks = 0..(_seq - 1)
        /\ \A k \in DOMAIN tasks :
              /\ OneBlockRun.submitted[k + 1].seq = k
              /\ tasks[k].audio = OneBlockRun.submitted[k + 1].audio
        /\ utterances = [i \in DOMAIN OneBlockRun.submitted |->
                             OneBlockRun.submitted[i].audio]
        /\ <<buf, preroll, in_speech, speech_frames, speech_run, silence_run>> =
              <<OneBlockRun.buf, OneBlockRun.preroll, OneBlockRun.in_speech,
                OneBlockRun.speech_frames, OneBlockRun.speech_run,
                OneBlockRun.silence_run>>

(* C36 witness: five samples pulled as blocks of 1, 3 and 1, no block      *)
(* boundary on a frame boundary, and an utterance was submitted.           *)
C36_Witness ==
    /\ Len(pulled) = 3
    /\ Len(pulled[1]) = 1 /\ Len(pulled[2]) = 3 /\ Len(pulled[3]) = 1
    /\ Len(utterances) = 1
    /\ tasks[0].audio = utterances[1]
    /\ pl_pc = "get"

----------------------------------------------------------------------------
(* The TTS cache under concurrent requests: MaxThreads request threads     *)
(* call _tts_cache_get and _tts_cache_set with keys of TtsKeys while the   *)
(* clock advances, for every capacity of TtsCaps and TTL of TtsTtls. The   *)
(* transcriber is not running.                                             *)
TtsInit ==
    /\ run_init
    /\ _TTS_CACHE_MAX \in TtsCaps
    /\ _TTS_CACHE_TTL_SEC \in TtsTtls
    /\ _TTS_CACHE = <<>>
    /\ _TTS_CACHE_LOCK = Unlocked
    /\ time_now = 0
    /\ tts_pc = [t \in TtsThreads |-> "idle"]
    /\ tts_key = [t \in TtsThreads |-> 0]
    /\ tts_ret = [t \in TtsThreads |-> NoReturn]
    /\ tts_used = <<>>

transcriber_state ==
    <<audio_queue, stop_event, _seq, _next_to_print, _results, _lock, cb_pc,
      indata, pl_pc, segmenter, futures, new_futures, fi, tasks, pr_pc, main_pc,
      history, utterances, printed, seg_history, last_pull, queue_history>>

(* The key becomes the most recently used one. *)
touch(used, key) == Append(SelectSeq(used, LAMBDA k : k # key), key)

(* _tts_cache_get(key) is called: the capacity test, then on to the lock. *)
TtsGetCall(t, key) ==
    /\ tts_pc[t] = "idle"
    /\ IF _TTS_CACHE_MAX <= 0
       THEN /\ tts_ret' = [tts_ret EXCEPT ![t] = None]
            /\ UNCHANGED <<tts_pc, tts_key>>
       ELSE /\ tts_pc' = [tts_pc EXCEPT ![t] = "get_lock"]
            /\ tts_key' = [tts_key EXCEPT ![t] = key]
            /\ tts_ret' = [tts_ret EXCEPT ![t] = NoReturn]
    /\ UNCHANGED <<_TTS_CACHE_MAX, _TTS_CACHE_TTL_SEC, _TTS_CACHE, _TTS_CACHE_LOCK,
                   time_now, tts_used, transcriber_state>>

(* _tts_cache_set(key, audio_bytes) is called. *)
TtsSetCall(t, key) ==
    /\ tts_pc[t] = "idle"
    /\ IF _TTS_CACHE_MAX <= 0
       THEN UNCHANGED <<tts_pc, tts_key>>
       ELSE /\ tts_pc' = [tts_pc EXCEPT ![t] = "set_lock"]
            /\ tts_key' = [tts_key EXCEPT ![t] = key]
    /\ tts_ret' = [tts_ret EXCEPT ![t] = NoReturn]
    /\ UNCHANGED <<_TTS_CACHE_MAX, _TTS_CACHE_TTL_SEC, _TTS_CACHE, _TTS_CACHE_LOCK,
                   time_now, tts_used, transcriber_state>>

(* with _TTS_CACHE_LOCK: *)
TtsAcquire(t) ==
    /\ tts_pc[t] \in {"get_lock", "set_lock"}
    /\ _TTS_CACHE_LOCK = Unlocked
    /\ _TTS_CACHE_LOCK' = t
    /\ tts_pc' = [tts_pc EXCEPT ![t] = IF @ = "get_lock" THEN "get" ELSE "set"]
    /\ UNCHANGED <<_TTS_CACHE_MAX, _TTS_CACHE_TTL_SEC, _TTS_CACHE, time_now,
                   tts_key, tts_ret, tts_used, transcriber_state>>

(* The body of _tts_cache_get, and the release of the lock. *)
TtsGet(t) ==
    /\ tts_pc[t] = "get"
    /\ LET r == _tts_cache_get(_TTS_CACHE, tts_key[t], time_now, _TTS_CACHE_TTL_SEC)
       IN  /\ _TTS_CACHE' = r.cache
           /\ tts_ret' = [tts_ret EXCEPT ![t] = r.ret]
           /\ tts_used' = IF r.ret # None THEN touch(tts_used, tts_key[t])
                          ELSE tts_used
    /\ _TTS_CACHE_LOCK' = Unlocked
    /\ tts_pc' = [tts_pc EXCEPT ![t] = "idle"]
    /\ UNCHANGED <<_TTS_CACHE_MAX, _TTS_CACHE_TTL_SEC, time_now, tts_key,
                   transcriber_state>>

(* _TTS_CACHE[key] = (time.time(), audio_bytes); move_to_end(key) *)
TtsSetStore(t) ==
    /\ tts_pc[t] = "set"
    /\ LET item == [key |-> tts_key[t], ts |-> time_now,
                    value |-> <<tts_key[t], time_now>>]
       IN  _TTS_CACHE' = move_to_end(dict_setitem(_TTS_CACHE, tts_key[t], item),
                                     tts_key[t])
    /\ tts_used' = touch(tts_used, tts_key[t])
    /\ tts_pc' = [tts_pc EXCEPT ![t] = "set_trim"]
    /\ UNCHANGED <<_TTS_CACHE_MAX, _TTS_CACHE_TTL_SEC, _TTS_CACHE_LOCK, time_now,
                   tts_key, tts_ret, transcriber_state>>

(* The second time.time(), the removal of expired entries, the eviction    *)
(* loop and the release of the lock.                                       *)
TtsSetTrim(t) ==
    /\ tts_pc[t] = "set_trim"
    /\ _TTS_CACHE' = popitem_while_over(
                         IF _TTS_CACHE_TTL_SEC > 0
                         THEN pop_expired(_TTS_CACHE, time_now, _TTS_CACHE_TTL_SEC)
                         ELSE _TTS_CACHE,
                         _TTS_CACHE_MAX)
    /\ _TTS_CACHE_LOCK' = Unlocked
    /\ tts_pc' = [tts_pc EXCEPT ![t] = "idle"]
    /\ UNCHANGED <<_TTS_CACHE_MAX, _TTS_CACHE_TTL_SEC, time_now, tts_key, tts_ret,
                   tts_used, transcriber_state>>

(* A second passes. *)
TtsTick ==
    /\ time_now < MaxTime
    /\ time_now' = time_now + 1
    /\ UNCHANGED <<_TTS_CACHE_MAX, _TTS_CACHE_TTL_SEC, _TTS_CACHE, _TTS_CACHE_LOCK,
                   tts_pc, tts_key, tts_ret, tts_used, transcriber_state>>

TtsNext ==
    \/ \E t \in TtsThreads, key \in TtsKeys : TtsGetCall(t, key)
    \/ \E t \in TtsThreads, key \in TtsKeys : TtsSetCall(t, key)
    \/ \E t \in TtsThreads : TtsAcquire(t)
    \/ \E t \in TtsThreads : TtsGet(t)
    \/ \E t \in TtsThreads : TtsSetStore(t)
    \/ \E t \in TtsThreads : TtsSetTrim(t)
    \/ TtsTick

TtsSpec == TtsInit /\ [][TtsNext]_vars

(* C37: whenever no call is inside its locked block, the cache holds at    *)
(* most _TTS_CACHE_MAX entries, one per key; with _TTS_CACHE_MAX = 0 it    *)
(* is always empty and every _tts_cache_get has returned None.             *)
C37_CacheBounded ==
    /\ _TTS_CACHE_LOCK = Unlocked => Len(_TTS_CACHE) <= _TTS_CACHE_MAX
    /\ \A i, j \in DOMAIN _TTS_CACHE :
          _TTS_CACHE[i].key = _TTS_CACHE[j].key => i = j
    /\ _TTS_CACHE_MAX = 0 =>
          /\ _TTS_CACHE = <<>>
          /\ \A t \in TtsThreads : tts_ret[t] \in {NoReturn, None}

(* C37 witness: capacity 2, two threads one behind the other: the cache is *)
(* full, the lock is free, and a third key is about to be set.             *)
C37_Witness ==
    /\ _TTS_CACHE_MAX = 2
    /\ Len(_TTS_CACHE) = 2
    /\ _TTS_CACHE_LOCK = Unlocked
    /\ tts_pc[1] = "set_lock" /\ tts_pc[2] = "get_lock"
    /\ ~has_key(_TTS_CACHE, tts_key[1])
    /\ Len(tts_used) = 3

(* The keys of a cache, and the place of a key in the order of last use. *)
Keys(d) == {d[i].key : i \in DOMAIN d}
Rank(key) == CHOOSE i \in DOMAIN tts_used : tts_used[i] = key

(* C38: when _tts_cache_set trims the cache, an entry that has not expired *)
(* is removed only if the cache is over capacity, only down to capacity,   *)
(* and only if every entry that stays was set or successfully read after   *)
(* it; the entry just set stays (capacity at least 1) unless it expired    *)
(* meanwhile. And what _tts_cache_get returns is the audio stored for its  *)
(* key, stored no longer ago than the TTL when the TTL is positive.        *)
C38_LruNeverStale ==
    [][/\ \A t \in TtsThreads :
            (tts_pc[t] = "set_trim" /\ tts_pc'[t] = "idle") =>
               LET live == {_TTS_CACHE[i].key : i \in
                               {j \in DOMAIN _TTS_CACHE :
                                   ~is_expired(_TTS_CACHE[j], time_now,
                                               _TTS_CACHE_TTL_SEC)}}
                   kept == Keys(_TTS_CACHE')
                   evicted == live \ kept
               IN  /\ kept \subseteq live
                   /\ Cardinality(live) <= _TTS_CACHE_MAX => evicted = {}
                   /\ evicted # {} => Len(_TTS_CACHE') = _TTS_CACHE_MAX
                   /\ \A e \in evicted, k \in kept : Rank(e) < Rank(k)
                   /\ tts_key[t] \in live => tts_key[t] \in kept
       /\ \A t \in TtsThreads :
            (tts_pc[t] = "get" /\ tts_pc'[t] = "idle" /\ tts_ret'[t] # None) =>
               /\ tts_ret'[t][1] = tts_key[t]
               /\ _TTS_CACHE_TTL_SEC > 0 =>
                     time_now - tts_ret'[t][2] <= _TTS_CACHE_TTL_SEC]_vars

(* C38 witness: capacity 2, three keys used; the entry that stayed with    *)
(* the newest one was stored before the clock last advanced and has been   *)
(* read by the other thread since, and the third key is gone.              *)
C38_Witness ==
    /\ _TTS_CACHE_MAX = 2
    /\ _TTS_CACHE_TTL_SEC = 1
    /\ _TTS_CACHE_LOCK = Unlocked
    /\ Len(tts_used) = 3
    /\ Len(_TTS_CACHE) = 2
    /\ _TTS_CACHE[1].key = tts_used[2]
    /\ _TTS_CACHE[2].key = tts_used[3]
    /\ _TTS_CACHE[1].ts < _TTS_CACHE[2].ts
    /\ \E t \in TtsThreads : tts_ret[t] = _TTS_CACHE[1].value

====
